---- MODULE Spec2Model ----
(***************************************************************************)
(* Lindo: the Electron main process's window controllers.                  *)
(*                                                                         *)
(*   - Application (application.ts): the list of game windows, created by  *)
(*     the asynchronous createGameWindow and removed on 'close'.           *)
(*   - GameWindow (windows/game-window.ts and its two other revisions):    *)
(*     the primary session, the auth BrowserView ("AuthSession"), the      *)
(*     completion signals and the asynchronous cookie / localStorage       *)
(*     transfer.                                                           *)
(*   - WSAWindow (windows/wsa-window.ts) and the Application's             *)
(*     createWSAWindow / closeWSAWindow: the guarded asynchronous init(),  *)
(*     cleanup(), the 30-second timeout and the embedding window.          *)
(*                                                                         *)
(* JavaScript runs handlers to completion on one event loop: one action    *)
(* below is one handler, or one continuation of an async function from     *)
(* the resolution of the promise it awaits up to its next await.           *)
(***************************************************************************)
EXTENDS Integers, Sequences, FiniteSets, Bags, TLC

\* ------------------------------------------------------------------ bounds
MaxWindows == 3      \* createGameWindow calls in one run
MaxOpenUrls == 2     \* 'open-url' events in one run
MaxCloseEvents == 3  \* 'close' events the BrowserWindows deliver in one run
MaxViews == 2        \* auth BrowserViews one GameWindow creates in one run
MaxSeqs == 2         \* completion signals one GameWindow handles in one run
MaxCookies == 1      \* cookie records cookies.get() returns, with every handler enabled
MaxCookieRecords == 3 \* cookie records cookies.get() returns, one transfer alone
MaxIntercepts == 1   \* custom-scheme interceptions of an open window in one run
MaxCreates == 2      \* CREATE_WSA_WINDOW requests in one run
MaxControllers == 2  \* WSAWindow objects constructed in one run
MaxInits == 2        \* WSAWindow.init() calls that start a sequence in one run
MaxMisses == 1       \* native-window lookups of one init() that find no window
MaxTicks == 2        \* callbacks the two polling timers of a WSAWindow run in one run

\* ------------------------------------------------------------------- state
VARIABLES
  \* Application
  platform,          \* process.platform
  gWindows,          \* Application._gWindows: the GameWindows, [id, index]
  pendingCreates,    \* createGameWindow calls suspended at `await GameWindow.init`
  nextWindowId,      \* identity of the next GameWindow object constructed
  quitRequests,      \* number of app.quit() calls
  winListening,      \* the GameWindows whose _win still has its 'close' listener
  closeEmits,        \* per GameWindow id: 'close' notifications it has emitted
  closeEvents,       \* number of 'close' events the BrowserWindows have delivered
  \* the main process around the Application
  instance,          \* Application._instance is set
  openUrls,          \* number of 'open-url' events the app has delivered
  uncaught,          \* errors thrown out of the 'open-url' listener
  winReloads,        \* per GameWindow id: reload() calls on it
  audioMutedOption,  \* optionStore.window.audioMuted
  soundOnFocus,      \* optionStore.window.soundOnFocus
  isMuted,           \* per GameWindow id: GameWindow._isMuted
  audioMuted,        \* per GameWindow id: its webContents' audio is muted
  audioLast,         \* the last focus, blur or mute operation and its window
  \* one GameWindow
  variant,           \* which revision of the GameWindow class is running
  sameSiteDefault,   \* the sameSite policy cookies.set applies when given none
  closed,            \* the BrowserWindow got 'close' and _close ran
  authBrowserView,   \* GameWindow._authBrowserView (0 = null)
  viewsCreated,      \* number of `new BrowserView` so far; views are 1..viewsCreated
  attached,          \* the BrowserViews attached to _win
  detaches,          \* per view: number of _win.removeBrowserView(view) calls
  reloads,           \* _win.webContents.reload() calls that took effect, by caller:
                     \* ["then"] the .then() callbacks of the completion signals,
                     \* ["intercept"] the custom-scheme interceptions
  signals,           \* per view and kind: completion signals it has fired
  primaryJar,        \* the cookies of the primary session's jar, one per key
  primaryStorage,    \* localStorage keys written in the primary session
  seqs,              \* the completion sequences in flight (a bag)
  completed,         \* the sequence that finished in the last step (<<>>: none)
  last,              \* what the last handler that answered or acted did
  shortcuts,         \* the accelerators electronLocalshortcut has registered for _win
  observing,         \* the hotkey-store observer of the window is not disposed
  closeNotices,      \* per 'close' the GameWindow emitted: what its listeners found
  \* the WSA window
  wsaWindow,         \* Application._wsaWindow: the WSAWindow held (0 = null)
  wsa,               \* per WSAWindow object: its private fields
  wsaMade,           \* number of `new WSAWindow()` so far; objects are 1..wsaMade
  wsaListeners,      \* the WSAWindows that have the 'closed' and 'error' listeners
  inits,             \* per init() sequence: its controller and the call it awaits
  bWindows,          \* per init() sequence: the BrowserWindow it constructed
  creates,           \* per createWSAWindow call: where it is suspended
  wsaLast,           \* what the last call on the WSA window returned
  wsaEmits,          \* per WSAWindow and event name: notifications it has emitted
  winBounds,         \* per BrowserWindow of a WSAWindow: its position and size
  ticks,             \* per callback of a polling timer: where it is suspended
  \* the utility functions of wsa-detector, called on their own
  fnArgs,            \* the function called and what the system answers to it
  fnResult           \* what the call returned (<<>>: not called yet)

appVars == <<platform, gWindows, pendingCreates, nextWindowId, quitRequests,
             winListening, closeEmits, closeEvents>>
gwVars == <<variant, sameSiteDefault, closed, authBrowserView, viewsCreated, attached, detaches,
            reloads, signals, primaryJar, primaryStorage, seqs, completed, last,
            shortcuts, observing, closeNotices>>
wsaVars == <<wsaWindow, wsa, wsaMade, wsaListeners, inits, bWindows, creates, wsaLast,
             wsaEmits, winBounds, ticks>>
fnVars == <<fnArgs, fnResult>>
mainVars == <<instance, openUrls, uncaught, winReloads, audioMutedOption, soundOnFocus,
              isMuted, audioMuted, audioLast>>
vars == <<appVars, gwVars, wsaVars, fnVars, mainVars>>

\* No utility function is being called.
FnIdle == fnArgs = [fn |-> "none"] /\ fnResult = <<>>

\* ------------------------------------------------------------- Application
Platforms == {"win32", "darwin", "linux"}

\* 'persist:' + this._index
Partition(w) == <<"persist:", w.index>>

\* an indexOf that finds nothing
IndexOfNothing(list, w) == -1

\* Array.prototype.indexOf: the first position holding w, -1 when absent
IndexOf(list, w) ==
  IF \E i \in 1..Len(list) : list[i] = w
  THEN (CHOOSE i \in 1..Len(list) : list[i] = w /\ \A j \in 1..(i - 1) : list[j] # w) - 1
  ELSE -1

\* Array.prototype.splice(start, 1): a negative start counts from the end
Splice1(list, start) ==
  LET s == IF start < 0 THEN (IF Len(list) + start < 0 THEN 0 ELSE Len(list) + start)
                        ELSE (IF start > Len(list) THEN Len(list) ELSE start)
  IN [i \in 1..(IF s < Len(list) THEN Len(list) - 1 ELSE Len(list)) |->
        IF i <= s THEN list[i] ELSE list[i + 1]]

\* The index createGameWindow reads before it awaits: this._gWindows.length.
NextIndex == Len(gWindows)

\* createGameWindow up to `await GameWindow.init(...)`
CreateGameWindowBegin ==
  /\ quitRequests = 0
  /\ (nextWindowId - 1) + Len(pendingCreates) < MaxWindows
  /\ pendingCreates' = Append(pendingCreates, NextIndex)
  /\ UNCHANGED <<platform, gWindows, nextWindowId, quitRequests, winListening,
                 closeEmits, closeEvents>>

\* createGameWindow after the await: the GameWindow is constructed with the
\* index read before, its 'close' listener registered, and it is pushed.
CreateGameWindowFinish(p) ==
  /\ quitRequests = 0
  /\ p \in 1..Len(pendingCreates)
  /\ LET gWindow == [id |-> nextWindowId, index |-> pendingCreates[p]]
     IN /\ gWindows' = Append(gWindows, gWindow)
        /\ winListening' = winListening \cup {gWindow}
  /\ nextWindowId' = nextWindowId + 1
  /\ pendingCreates' = [i \in 1..(Len(pendingCreates) - 1) |->
                          IF i < p THEN pendingCreates[i] ELSE pendingCreates[i + 1]]
  /\ UNCHANGED <<platform, quitRequests, closeEmits, closeEvents>>

\* gWindow.on('close', ...): the orchestrator's listener for GameWindow gWindow
GameWindowClosed(gWindow) ==
  LET after == Splice1(gWindows, IndexOf(gWindows, gWindow))
  IN /\ gWindows' = after
     /\ quitRequests' = IF Len(after) = 0 /\ platform # "darwin"
                        THEN quitRequests + 1 ELSE quitRequests

\* _close leaving the listeners of _win in place
ListenersKept(gWindow) == winListening

\* this._win.removeAllListeners() in _close of gWindow
ListenersAfterClose(gWindow) == winListening \ {gWindow}

\* The BrowserWindow of GameWindow `id` delivers 'close': if its listener is
\* registered _close runs, removes the listeners and emits the GameWindow's
\* 'close', which runs the orchestrator's listener.
WinCloseEvent(id) ==
  /\ id \in 1..(nextWindowId - 1)
  /\ closeEvents < MaxCloseEvents
  /\ closeEvents' = closeEvents + 1
  /\ IF \E w \in winListening : w.id = id
     THEN LET gWindow == CHOOSE w \in winListening : w.id = id
          IN /\ winListening' = ListenersAfterClose(gWindow)
             /\ closeEmits' = [closeEmits EXCEPT ![id] = @ + 1]
             /\ GameWindowClosed(gWindow)
     ELSE UNCHANGED <<winListening, closeEmits, gWindows, quitRequests>>
  /\ UNCHANGED <<platform, pendingCreates, nextWindowId>>

\* The Application is constructed, no 'open-url' has arrived and the audio
\* options are off.
MainIdle ==
  /\ instance = TRUE
  /\ openUrls = 0
  /\ uncaught = 0
  /\ winReloads = [id \in 1..MaxWindows |-> 0]
  /\ audioMutedOption = FALSE
  /\ soundOnFocus = FALSE
  /\ isMuted = [id \in 1..MaxWindows |-> FALSE]
  /\ audioMuted = [id \in 1..MaxWindows |-> FALSE]
  /\ audioLast = [op |-> "none"]

AppInit ==
  /\ platform \in Platforms
  /\ gWindows = <<>>
  /\ pendingCreates = <<>>
  /\ nextWindowId = 1
  /\ quitRequests = 0
  /\ winListening = {}
  /\ closeEmits = [id \in 1..MaxWindows |-> 0]
  /\ closeEvents = 0

\* ------------------------------------------------------ audio of a window
\* The GameWindows whose BrowserWindow exists: constructed and not closed.
LiveWindows == {id \in 1..(nextWindowId - 1) : closeEmits[id] = 0}

\* The GameWindows in Application._gWindows.
Listed == {gWindows[i].id : i \in 1..Len(gWindows)}

\* GameWindow.setAudioMute(value) on every window of ids: the window's own
\* flag and its webContents both take the value.
SetAudioMute(ids, value) ==
  /\ isMuted' = [id \in 1..MaxWindows |-> IF id \in ids THEN value ELSE isMuted[id]]
  /\ audioMuted' = [id \in 1..MaxWindows |-> IF id \in ids THEN value ELSE audioMuted[id]]

\* createGameWindow resumes and the GameWindow constructor runs: _isMuted is
\* false and the webContents take the global option.
GameWindowConstructed(p) ==
  /\ CreateGameWindowFinish(p)
  /\ isMuted' = [isMuted EXCEPT ![nextWindowId] = FALSE]
  /\ audioMuted' = [audioMuted EXCEPT ![nextWindowId] = audioMutedOption]
  /\ UNCHANGED <<instance, openUrls, uncaught, winReloads, audioMutedOption, soundOnFocus,
                 audioLast>>

\* The BrowserWindow's 'focus' listener.
Focus(id) ==
  /\ id \in LiveWindows
  /\ audioMuted' = [audioMuted EXCEPT ![id] = audioMutedOption \/ isMuted[id]]
  /\ audioLast' = [op |-> "focus", id |-> id]
  /\ UNCHANGED <<instance, openUrls, uncaught, winReloads, audioMutedOption, soundOnFocus,
                 isMuted>>

\* The BrowserWindow's 'blur' listener.
Blur(id) ==
  /\ id \in LiveWindows
  /\ audioMuted' = [audioMuted EXCEPT ![id] =
                      IF audioMutedOption \/ isMuted[id] THEN TRUE
                      ELSE IF soundOnFocus THEN TRUE
                      ELSE audioMuted[id]]
  /\ audioLast' = [op |-> "blur", id |-> id]
  /\ UNCHANGED <<instance, openUrls, uncaught, winReloads, audioMutedOption, soundOnFocus,
                 isMuted>>

\* The AUDIO_MUTE_WINDOW request of the renderer of window `sender`.
AudioMuteWindow(sender, value) ==
  /\ sender \in LiveWindows
  /\ IF sender \in Listed THEN SetAudioMute({sender}, value)
                           ELSE UNCHANGED <<isMuted, audioMuted>>
  /\ audioLast' = [op |-> "setAudioMute", id |-> sender]
  /\ UNCHANGED <<instance, openUrls, uncaught, winReloads, audioMutedOption, soundOnFocus>>

\* The audioMuted option changes and its observer runs over the windows.
AudioMutedObserved(value) ==
  /\ value # audioMutedOption
  /\ audioMutedOption' = value
  /\ SetAudioMute(Listed, value)
  /\ audioLast' = [op |-> "audioMuted"]
  /\ UNCHANGED <<instance, openUrls, uncaught, winReloads, soundOnFocus>>

\* The soundOnFocus option changes; nothing observes it.
SoundOnFocusSet(value) ==
  /\ value # soundOnFocus
  /\ soundOnFocus' = value
  /\ UNCHANGED <<instance, openUrls, uncaught, winReloads, audioMutedOption, isMuted,
                 audioMuted, audioLast>>

\* -------------------------------------------------------- protocol links
\* app.whenReady() resolves and Application.init() returns: the singleton is
\* set, and run() goes on to create the game windows.
WhenReady ==
  /\ ~instance
  /\ instance' = TRUE
  /\ UNCHANGED <<openUrls, uncaught, winReloads, audioMutedOption, soundOnFocus, isMuted,
                 audioMuted, audioLast>>

\* Application.reloadAllGameWindows(): reload() on every listed window.
ReloadAllGameWindows ==
  [id \in 1..MaxWindows |-> IF id \in Listed THEN winReloads[id] + 1 ELSE winReloads[id]]

\* The app's 'open-url' listener. The `Application.instance` getter throws
\* while the singleton is not set, and the listener has no try/catch.
OpenUrl ==
  /\ openUrls < MaxOpenUrls
  /\ openUrls' = openUrls + 1
  /\ IF ~instance
       THEN uncaught' = uncaught + 1 /\ UNCHANGED winReloads
       ELSE winReloads' = ReloadAllGameWindows /\ UNCHANGED uncaught
  /\ UNCHANGED <<instance, audioMutedOption, soundOnFocus, isMuted, audioMuted, audioLast>>

\* -------------------------------------------------------------- GameWindow
\* The three revisions of the GameWindow class in the repository.
Current == "game-window.ts"       \* packages/main/windows/game-window.ts
Detector == "detector"            \* part_007:16-664: adds the AUTH_SUCCESS_DETECTED
                                  \* console signal and the localStorage copy
Filtered == "filtered"            \* part_007:681-1060: auth view only for ankama
                                  \* account hosts, no completion detection
Variants == {Current, Detector, Filtered}

\* URLs, as scheme / host / path.
NoUrl == [scheme |-> "", host |-> "", path |-> ""]
URLs ==
  { [scheme |-> "https:", host |-> "account.ankama.com", path |-> "/login"],
    [scheme |-> "https:", host |-> "account.ankama.com", path |-> "/en/ankama/success"],
    [scheme |-> "https:", host |-> "game.dofus-touch.com", path |-> "/"],
    [scheme |-> "https:", host |-> "www.example.com", path |-> "/"],
    [scheme |-> "http:", host |-> "www.example.com", path |-> "/"],
    [scheme |-> "dofustouch:", host |-> "auth", path |-> "/"],
    [scheme |-> "about:", host |-> "blank", path |-> ""] }

\* url.startsWith('https:'), url.startsWith('http')
StartsWithHttps(u) == u.scheme = "https:"
StartsWithHttp(u) == u.scheme \in {"http:", "https:"}
\* url.includes(marker), for markers that are a host, a path or host + path
UrlIncludes(u, marker) == marker \in {u.host, u.path, u.host \o u.path}

\* the custom-scheme test without its `!url.startsWith('http')` disjunct
IsCustomSchemeNamedOnly(u) ==
  \/ u.scheme = "dofustouch:"
  \/ u.scheme = "ankama:"

\* url.startsWith('dofustouch://') || url.startsWith('ankama://') || !url.startsWith('http')
IsCustomScheme(u) ==
  \/ u.scheme = "dofustouch:"
  \/ u.scheme = "ankama:"
  \/ ~StartsWithHttp(u)

\* the did-navigate handler's success test
IsSuccessUrl(u) ==
  \/ UrlIncludes(u, "game.dofus-touch.com")
  \/ UrlIncludes(u, "auth-success")
  \/ (variant = Detector /\ UrlIncludes(u, "account.ankama.com/en/ankama/success"))

\* the Filtered revision's test for an authentication URL
IsAuthUrl(u) ==
  \/ UrlIncludes(u, "account.ankama.com")
  \/ UrlIncludes(u, "auth.ankama.com")
  \/ UrlIncludes(u, "login.ankama.com")

\* Console messages, as the set of markers message.includes() finds in them.
CloseRequested == "close-auth-browser-requested"
AuthSuccess == "AUTH_SUCCESS_DETECTED"
Messages == SUBSET {CloseRequested, AuthSuccess}

\* Cookie records as cookies.get() returns them (expirationDate 0: none, a
\* session cookie).
SessionCookie ==
  [name |-> "sid", value |-> "abc", domain |-> "x.test", path |-> "/",
   secure |-> FALSE, httpOnly |-> FALSE, expirationDate |-> 0, sameSite |-> "lax"]
CookieRecords ==
  { SessionCookie,
    [name |-> "sid", value |-> "xyz", domain |-> "x.test", path |-> "/",
     secure |-> TRUE, httpOnly |-> TRUE, expirationDate |-> 1893456000,
     sameSite |-> "strict"],
    [name |-> "token", value |-> "abc", domain |-> ".x.test", path |-> "/app",
     secure |-> TRUE, httpOnly |-> FALSE, expirationDate |-> 0,
     sameSite |-> "no_restriction"] }

\* the lists of at most n records out of recs
CookieLists(recs, n) == UNION {[1..k -> recs] : k \in 0..n}

\* the sameSite policy of a cookie set with none given
SameSiteDefaults == {"no_restriction", "lax"}

\* cookieDetails with the value left out
CookieDetailsWithoutValue(cookie) ==
  [url |-> <<IF cookie.secure THEN "https://" ELSE "http://", cookie.domain>>,
   name |-> cookie.name, value |-> "", domain |-> cookie.domain,
   path |-> cookie.path, secure |-> cookie.secure, httpOnly |-> cookie.httpOnly,
   expirationDate |-> cookie.expirationDate,
   sameSite |-> IF variant = Current THEN "undefined" ELSE cookie.sameSite]

\* const cookieDetails = { url, name, value, domain, path, secure, httpOnly,
\* expirationDate } and, in the revisions of part_007, sameSite
CookieDetails(cookie) ==
  [url |-> <<IF cookie.secure THEN "https://" ELSE "http://", cookie.domain>>,
   name |-> cookie.name, value |-> cookie.value, domain |-> cookie.domain,
   path |-> cookie.path, secure |-> cookie.secure, httpOnly |-> cookie.httpOnly,
   expirationDate |-> cookie.expirationDate,
   sameSite |-> IF variant = Current THEN "undefined" ELSE cookie.sameSite]

\* the key under which a jar holds a cookie
CookieKey(c) == <<c.name, c.domain, c.path>>

\* session.cookies.set(details) on jar: the cookie replaces the one of its key
CookiesSet(jar, details) ==
  {c \in jar : CookieKey(c) # CookieKey(details)} \cup
  {[name |-> details.name, value |-> details.value, domain |-> details.domain,
    path |-> details.path, secure |-> details.secure, httpOnly |-> details.httpOnly,
    expirationDate |-> details.expirationDate,
    sameSite |-> IF details.sameSite = "undefined" THEN sameSiteDefault
                 ELSE details.sameSite]}

\* the accelerators the hotkey store may hold for the window's tabs
Accelerators == {"Ctrl+1", "Ctrl+2"}

Views == 1..MaxViews
Triggers == {"navigate", "console"}
LsKeys == {"token"}

RECURSIVE SumOver(_, _)
SumOver(f, S) ==
  IF S = {} THEN 0
  ELSE LET x == CHOOSE y \in S : TRUE IN f[x] + SumOver(f, S \ {x})

SignalsFired == SumOver(signals, DOMAIN signals)

\* What a handler did: the event, the handler's answer, the URL passed to
\* loadURL and the view it was called on (NoUrl, 0: no call), and whether
\* shell.openExternal was called.
Did(ev, answer, url, loadedIn, external) ==
  [ev |-> ev, answer |-> answer, url |-> url, loadedIn |-> loadedIn,
   external |-> external]
Acted(ev, answer) == Did(ev, answer, NoUrl, 0, FALSE)
Continuation == Acted("continuation", "none")

\* if (this._authBrowserView) { removeBrowserView(it); this._authBrowserView = null }
\* on the view state <<_authBrowserView, attached views, detaches>>
DetachView(st) ==
  IF st[1] # 0
  THEN <<0, st[2] \ {st[1]}, [st[3] EXCEPT ![st[1]] = @ + 1]>>
  ELSE st

ViewState == <<authBrowserView, attached, detaches>>

SetViewState(st) ==
  /\ authBrowserView' = st[1]
  /\ attached' = st[2]
  /\ detaches' = st[3]

\* _win.webContents.reload() by caller c: it throws on a destroyed window
ReloadBy(c) == reloads' = IF closed THEN reloads ELSE [reloads EXCEPT ![c] = @ + 1]

\* the sequences in flight other than s
Others(s) == seqs (-) SetToBag({s})
InFlight == BagToSet(seqs)

Logged(s, e) == [s EXCEPT !.log = Append(@, e)]

\* the .then() callback removing the view the sequence read from, without the
\* `if (this._authBrowserView)` test
ThenCallbackUnguarded(rest, s, st) ==
  LET st2 == IF s.src # 0
             THEN <<0, st[2] \ {s.src}, [st[3] EXCEPT ![s.src] = @ + 1]>>
             ELSE st
      s1 == IF s.src # 0 THEN Logged(s, "detach") ELSE s
      s2 == IF closed THEN s1 ELSE Logged(s1, "reload")
  IN /\ SetViewState(st2)
     /\ ReloadBy("then")
     /\ seqs' = rest
     /\ completed' = <<s2>>

\* the .then() callback reloading before it detaches
ThenCallbackReloadFirst(rest, s, st) ==
  LET s1 == IF closed THEN s ELSE Logged(s, "reload")
      s2 == IF st[1] # 0 THEN Logged(s1, "detach") ELSE s1
  IN /\ SetViewState(DetachView(st))
     /\ ReloadBy("then")
     /\ seqs' = rest
     /\ completed' = <<s2>>

\* The .then() callback after _transferCookies() settles, for sequence s, run
\* on view state st with the sequences `rest` still in flight: detach the auth
\* view if there is one, then reload the primary session.
ThenCallback(rest, s, st) ==
  LET s1 == IF st[1] # 0 THEN Logged(s, "detach") ELSE s
      s2 == IF closed THEN s1 ELSE Logged(s1, "reload")
  IN /\ SetViewState(DetachView(st))
     /\ ReloadBy("then")
     /\ seqs' = rest
     /\ completed' = <<s2>>

\* A completion sequence: the locals of its _transferCookies call (src: the
\* auth view whose cookie jar it reads, lsSrc: the one whose localStorage it
\* reads), the cookieDetails it has passed to cookies.set with the outcome of
\* each call, and the steps it has taken.
NewSeq(src) ==
  [src |-> src, pc |-> "get", cookies |-> <<>>, i |-> 0, attempts |-> <<>>,
   results |-> <<>>, lsSrc |-> 0, lsData |-> {}, log |-> <<>>]

\* this._transferCookies().then(...) as called by a completion signal of view
\* `emitter`, on view state st.  With no auth view _transferCookies returns at
\* once and the callback runs; otherwise it calls cookies.get on the auth
\* view's session and suspends.
StartCompletion(trigger, emitter, st) ==
  /\ SignalsFired < MaxSeqs
  /\ signals' = [signals EXCEPT ![<<emitter, trigger>>] = @ + 1]
  /\ IF st[1] = 0
     THEN ThenCallback(seqs, NewSeq(0), st)
     ELSE /\ SetViewState(st)
          /\ seqs' = seqs (+) SetToBag({Logged(NewSeq(st[1]), "cookies")})
          /\ UNCHANGED reloads
          /\ completed' = <<>>

\* --------------------------------------------- GameWindow: event handlers
\* the routing test narrowed to account.ankama.com in every revision
RoutesOnlyAccountHostToAuthView(u) ==
  StartsWithHttps(u) /\ UrlIncludes(u, "account.ankama.com")

\* The window-open handler's test for a URL it loads in the auth view: every
\* 'https:' URL, in the Filtered revision only those naming an ankama account host.
RoutesToAuthView(u) ==
  StartsWithHttps(u) /\ (variant = Filtered => IsAuthUrl(u))

\* a new view for every routed URL, without the `if (!this._authBrowserView)` test
NeedsNewViewAlways(wantsView) == wantsView

\* if (!this._authBrowserView), for a URL with RoutesToAuthView = wantsView
NeedsNewView(wantsView) == wantsView /\ authBrowserView = 0

\* _win.webContents.setWindowOpenHandler: a window-open request of the primary
\* session.  Every answer is { action: 'deny' }.
WindowOpen(u) ==
  /\ ~closed
  /\ LET wantsView == RoutesToAuthView(u)
         external == StartsWithHttps(u) /\ variant = Filtered /\ ~IsAuthUrl(u)
         create == NeedsNewView(wantsView)
         view == IF create THEN viewsCreated + 1 ELSE authBrowserView
     IN /\ create => viewsCreated < MaxViews
        /\ viewsCreated' = IF create THEN view ELSE viewsCreated
        /\ authBrowserView' = IF wantsView THEN view ELSE authBrowserView
        \* setBrowserView replaces whatever view the window showed
        /\ attached' = IF create THEN {view} ELSE attached
        /\ last' = Did("window-open", "deny", IF wantsView THEN u ELSE NoUrl,
                       IF wantsView THEN view ELSE 0, external)
  /\ completed' = <<>>
  /\ UNCHANGED <<variant, sameSiteDefault, shortcuts, observing, closeNotices, closed, detaches, reloads, signals, primaryJar,
                 primaryStorage, seqs>>

\* 'console-message' of auth view v
AuthConsoleMessage(v, msg) ==
  /\ v \in 1..viewsCreated
  /\ variant # Filtered
  /\ LET st == IF CloseRequested \in msg THEN DetachView(ViewState) ELSE ViewState
     IN IF variant = Detector /\ AuthSuccess \in msg
        THEN StartCompletion("console", v, st)
        ELSE /\ SetViewState(st)
             /\ completed' = <<>>
             /\ UNCHANGED <<reloads, signals, seqs>>
  /\ last' = IF msg = {} THEN last
             ELSE Acted("console-message",
                        IF CloseRequested \in msg
                        THEN (IF AuthSuccess \in msg THEN "close+success" ELSE "close")
                        ELSE "success")
  /\ UNCHANGED <<variant, sameSiteDefault, shortcuts, observing, closeNotices, closed, viewsCreated, primaryJar, primaryStorage>>

\* 'did-navigate' of auth view v
AuthDidNavigate(v, u) ==
  /\ v \in 1..viewsCreated
  /\ variant # Filtered
  /\ IF IsSuccessUrl(u)
     THEN /\ StartCompletion("navigate", v, ViewState)
          /\ last' = Acted("did-navigate", "success")
     ELSE /\ completed' = <<>>
          /\ UNCHANGED last
          /\ UNCHANGED <<authBrowserView, attached, detaches, reloads, signals, seqs>>
  /\ UNCHANGED <<variant, sameSiteDefault, shortcuts, observing, closeNotices, closed, viewsCreated, primaryJar, primaryStorage>>

\* The custom-scheme branch shared by 'will-navigate' and the auth view's
\* window-open handler: detach the auth view, reload the primary session.
InterceptCustomScheme ==
  /\ closed \/ reloads["intercept"] < MaxIntercepts
  /\ SetViewState(DetachView(ViewState))
  /\ ReloadBy("intercept")

\* 'will-navigate' of auth view v (the Filtered revision registers none)
AuthWillNavigate(v, u) ==
  /\ v \in 1..viewsCreated
  /\ IF variant # Filtered /\ IsCustomScheme(u)
     THEN /\ InterceptCustomScheme
          /\ last' = Acted("will-navigate", "prevented")
     ELSE /\ UNCHANGED <<authBrowserView, attached, detaches, reloads>>
          /\ last' = Acted("will-navigate", "proceed")
  /\ completed' = <<>>
  /\ UNCHANGED <<variant, sameSiteDefault, shortcuts, observing, closeNotices, closed, viewsCreated, signals, primaryJar, primaryStorage, seqs>>

\* the auth view's setWindowOpenHandler
AuthWindowOpen(v, u) ==
  /\ v \in 1..viewsCreated
  /\ IF IsCustomScheme(u)
     THEN /\ InterceptCustomScheme
          /\ last' = Acted("auth-window-open", "deny+reload")
     ELSE /\ UNCHANGED <<authBrowserView, attached, detaches, reloads>>
          /\ last' = Acted("auth-window-open", "deny")
  /\ completed' = <<>>
  /\ UNCHANGED <<variant, sameSiteDefault, shortcuts, observing, closeNotices, closed, viewsCreated, signals, primaryJar, primaryStorage, seqs>>

\* The hotkey-store observer: unregisterAll, then one register per tab that
\* has an accelerator.  `tabs` is the set of accelerators of the store's tabs.
HotkeyStoreChanged(tabs) ==
  /\ IF observing
     THEN /\ shortcuts' = tabs
          /\ last' = Acted("hotkey-store", "registered")
     ELSE /\ UNCHANGED shortcuts
          /\ last' = Acted("hotkey-store", "ignored")
  /\ completed' = <<>>
  /\ UNCHANGED <<variant, sameSiteDefault, observing, closeNotices, closed,
                 authBrowserView, viewsCreated, attached, detaches, reloads,
                 signals, primaryJar, primaryStorage, seqs>>

\* What the listeners of the GameWindow's 'close' find when it is emitted.
CloseNotice(views, registered, watching) ==
  [views |-> views, shortcuts |-> registered, observing |-> watching]

\* _close emitting 'close' before it cleans up
CloseEmitsFirst ==
  /\ closeNotices' = Append(closeNotices, CloseNotice(attached, shortcuts, observing))
  /\ SetViewState(DetachView(ViewState))
  /\ shortcuts' = {}
  /\ observing' = FALSE

\* _close(event): remove the auth view, _win.removeAllListeners(),
\* electronLocalshortcut.unregisterAll(_win), dispose the hotkey-store
\* observer, emit 'close'.
Close ==
  /\ SetViewState(DetachView(ViewState))
  /\ shortcuts' = {}
  /\ observing' = FALSE
  /\ closeNotices' = Append(closeNotices, CloseNotice(attached', shortcuts', observing'))

\* _win 'close' -> _close(event); _close removes the listener, so the event
\* finds it once
CloseWindow ==
  /\ ~closed
  /\ closed' = TRUE
  /\ Close
  /\ last' = Acted("close", "none")
  /\ completed' = <<>>
  /\ UNCHANGED <<variant, sameSiteDefault, viewsCreated, reloads, signals, primaryJar, primaryStorage, seqs>>

\* ---------------------------- GameWindow: _transferCookies continuations
\* (s0 is the sequence as it was suspended, s the sequence as it goes on)
\* After the cookie loop: the Current revision returns true; the Detector
\* revision goes on to copy localStorage, reading this._authBrowserView again
\* (a null there throws into the outer catch, which returns false).  Either
\* return runs the .then() callback.
AfterCookies(s0, s) ==
  LET s1 == Logged(s, "cookiesEnd")
  IN IF variant = Detector /\ authBrowserView # 0
     THEN /\ seqs' = Others(s0) (+) SetToBag({[Logged(s1, "storage") EXCEPT
                                      !.pc = "lsGet", !.lsSrc = authBrowserView]})
          /\ completed' = <<>>
          /\ UNCHANGED <<authBrowserView, attached, detaches, reloads>>
     ELSE ThenCallback(Others(s0), s1, ViewState)

\* The loop's next cookies.set call, for cookie j; on a destroyed window every
\* remaining call throws at once and the loop runs out.
NextCookie(s0, s, j) ==
  IF j <= Len(s.cookies) /\ ~closed
  THEN /\ seqs' = Others(s0) (+) SetToBag({[s EXCEPT !.pc = "set", !.i = j,
                     !.attempts = Append(@, CookieDetails(s.cookies[j]))]})
       /\ completed' = <<>>
       /\ UNCHANGED <<authBrowserView, attached, detaches, reloads>>
  ELSE AfterCookies(s0, [s EXCEPT !.i = Len(s.cookies)])

\* cookies.get({}) resolves with the cookie records `list`
CookiesGetResolved(s, list) ==
  /\ s \in InFlight
  /\ s.pc = "get"
  /\ NextCookie(s, [s EXCEPT !.cookies = list], 1)
  /\ last' = Continuation
  /\ UNCHANGED <<variant, sameSiteDefault, shortcuts, observing, closeNotices, closed, viewsCreated, signals, primaryJar, primaryStorage>>

\* cookies.get({}) rejects: the outer catch returns false
CookiesGetRejected(s) ==
  /\ s \in InFlight
  /\ s.pc = "get"
  /\ ThenCallback(Others(s), Logged(s, "cookiesEnd"), ViewState)
  /\ last' = Continuation
  /\ UNCHANGED <<variant, sameSiteDefault, shortcuts, observing, closeNotices, closed, viewsCreated, signals, primaryJar, primaryStorage>>

\* cookies.set(cookieDetails) settles, a rejection ending the loop
CookieSetSettledAbortsOnFailure(s, ok) ==
  /\ s \in InFlight
  /\ s.pc = "set"
  /\ primaryJar' = IF ok THEN CookiesSet(primaryJar, s.attempts[s.i]) ELSE primaryJar
  /\ IF ok THEN NextCookie(s, [s EXCEPT !.results = Append(@, ok)], s.i + 1)
     ELSE AfterCookies(s, [s EXCEPT !.results = Append(@, ok)])
  /\ last' = Continuation
  /\ UNCHANGED <<variant, sameSiteDefault, shortcuts, observing, closeNotices, closed, viewsCreated, signals, primaryStorage>>

\* cookies.set(cookieDetails) settles; a rejection is logged and the loop goes on
CookieSetSettled(s, ok) ==
  /\ s \in InFlight
  /\ s.pc = "set"
  /\ primaryJar' = IF ok THEN CookiesSet(primaryJar, s.attempts[s.i]) ELSE primaryJar
  /\ NextCookie(s, [s EXCEPT !.results = Append(@, ok)], s.i + 1)
  /\ last' = Continuation
  /\ UNCHANGED <<variant, sameSiteDefault, shortcuts, observing, closeNotices, closed, viewsCreated, signals, primaryStorage>>

\* executeJavaScript on the auth view settles with the localStorage snapshot
LocalStorageRead(s, data, ok) ==
  /\ s \in InFlight
  /\ s.pc = "lsGet"
  /\ IF ok /\ data # {} /\ ~closed
     THEN /\ seqs' = Others(s) (+) SetToBag({[s EXCEPT !.pc = "lsSet", !.lsData = data]})
          /\ completed' = <<>>
          /\ UNCHANGED <<authBrowserView, attached, detaches, reloads>>
     ELSE ThenCallback(Others(s), Logged(s, "storageEnd"), ViewState)
  /\ last' = Continuation
  /\ UNCHANGED <<variant, sameSiteDefault, shortcuts, observing, closeNotices, closed, viewsCreated, signals, primaryJar, primaryStorage>>

\* executeJavaScript(setLocalStorageScript) on the primary session settles
LocalStorageWritten(s, ok) ==
  /\ s \in InFlight
  /\ s.pc = "lsSet"
  /\ primaryStorage' = IF ok THEN primaryStorage \cup s.lsData ELSE primaryStorage
  /\ ThenCallback(Others(s), Logged(s, "storageEnd"), ViewState)
  /\ last' = Continuation
  /\ UNCHANGED <<variant, sameSiteDefault, shortcuts, observing, closeNotices, closed, viewsCreated, signals, primaryJar>>

\* --------------------------------------------------------------- WSAWindow
\* windows/wsa-window.ts.  A WSAWindow is one of 1..MaxControllers; an init()
\* sequence is one of 1..MaxInits and the BrowserWindow it constructs, if it
\* gets that far, carries the sequence's number.
Controllers == 1..MaxControllers
InitIds == 1..MaxInits
CreateIds == 1..MaxCreates
TickIds == 1..MaxTicks

maxRetries == 10   \* init(): attempts of the native-window lookup

\* The fields of a WSAWindow after construction.
NewWSAWindow ==
  [wsaHandle |-> FALSE, window |-> 0, isReady |-> FALSE, checkInterval |-> FALSE,
   screenshotInterval |-> FALSE, initializationInProgress |-> FALSE]

\* The calls init() awaits, in the order of the code.
AwaitedCalls ==
  {"isWSAInstalled", "isWSARunning", "startWSA", "connectToWSA",
   "isDofusTouchInstalled", "installDofusTouch", "launchDofusTouch",
   "findWindowByTitle", "retryWait", "isWSAWindow", "getWindowRect", "loadURL"}
\* How an init() call ends: it resolves to true or false, or it rejects.
Outcomes == {"true", "false", "rejected"}

NoInit == [c |-> 0, pc |-> "unused", retries |-> 0]
NoBrowserWindow == [state |-> "none", listener |-> FALSE]
NoCreate == [pc |-> "unused", init |-> 0, timedOut |-> FALSE]
NoTick == [c |-> 0, timer |-> "none", pc |-> "unused"]

Running(i) == inits[i].pc \in AwaitedCalls
RunningOn(c) == {i \in InitIds : Running(i) /\ inits[i].c = c}
NextInitId == Cardinality({i \in InitIds : inits[i].pc # "unused"}) + 1
NextCreateId == Cardinality({k \in CreateIds : creates[k].pc # "unused"}) + 1

\* BrowserWindow.isDestroyed()
IsDestroyed(b, win) == b[win].state = "destroyed"

\* cleanup() on controller c, with the controllers w and the BrowserWindows b:
\* both timers cleared, the embedding window closed and released unless it
\* is destroyed already, handle, ready flag and guard flag reset.
Cleanup(w, b, c) ==
  LET win == w[c].window
      closes == win # 0 /\ ~IsDestroyed(b, win)
  IN [wsa |-> [w EXCEPT ![c] =
                 [wsaHandle |-> FALSE, window |-> IF closes THEN 0 ELSE win,
                  isReady |-> FALSE, checkInterval |-> FALSE,
                  screenshotInterval |-> FALSE, initializationInProgress |-> FALSE]],
      bWindows |-> IF closes THEN [b EXCEPT ![win].state = "closing"] ELSE b]

\* The catch block of init(): emit('error') throws when the controller has
\* no 'error' listener, and then init() rejects with nothing reset;
\* otherwise the guard flag is reset, cleanup() runs and init() returns false.
InitFailed(w, b, c) ==
  IF c \in wsaListeners
  THEN LET cl == Cleanup(w, b, c)
       IN [wsa |-> cl.wsa, bWindows |-> cl.bWindows, pc |-> "false"]
  ELSE [wsa |-> w, bWindows |-> b, pc |-> "rejected"]

\* The head of the native-window lookup loop:
\* while (retries < maxRetries && !this._wsaHandle), then if (!this._wsaHandle).
LookupLoop(w, b, c, retries) ==
  IF retries < maxRetries /\ ~w[c].wsaHandle
  THEN [wsa |-> w, bWindows |-> b, pc |-> "findWindowByTitle"]
  ELSE IF ~w[c].wsaHandle
       THEN InitFailed(w, b, c)
       ELSE [wsa |-> w, bWindows |-> b, pc |-> "isWSAWindow"]

\* init() sequence i of controller c resumes from the call `pc` it awaited,
\* which answered `ok`, and runs to its next await or to its end.
InitContinues(i, c, pc, retries, ok) ==
  LET w == wsa
      b == bWindows
      to(next) == [wsa |-> w, bWindows |-> b, pc |-> next]
      orFail(next) == IF ok THEN to(next) ELSE InitFailed(w, b, c)
  IN CASE pc = "isWSAInstalled" -> orFail("isWSARunning")
       [] pc = "isWSARunning" -> IF ok THEN to("connectToWSA") ELSE to("startWSA")
       [] pc = "startWSA" -> orFail("connectToWSA")
       [] pc = "connectToWSA" -> orFail("isDofusTouchInstalled")
       [] pc = "isDofusTouchInstalled" ->
            IF ok THEN to("launchDofusTouch") ELSE to("installDofusTouch")
       [] pc = "installDofusTouch" -> orFail("launchDofusTouch")
       [] pc = "launchDofusTouch" ->
            IF ok THEN LookupLoop(w, b, c, retries) ELSE InitFailed(w, b, c)
       [] pc = "findWindowByTitle" ->
            LET w1 == [w EXCEPT ![c].wsaHandle = ok]
            IN IF ok THEN LookupLoop(w1, b, c, retries)
               ELSE [wsa |-> w1, bWindows |-> b, pc |-> "retryWait"]
       [] pc = "retryWait" -> LookupLoop(w, b, c, retries + 1)
       [] pc = "isWSAWindow" -> orFail("getWindowRect")
       [] pc = "getWindowRect" ->
            IF ok
            THEN [wsa |-> [w EXCEPT ![c].window = i],
                  bWindows |-> [b EXCEPT ![i] = [state |-> "loading", listener |-> FALSE]],
                  pc |-> "loadURL"]
            ELSE InitFailed(w, b, c)
       [] pc = "loadURL" ->
            IF ok /\ w[c].window # 0
            THEN [wsa |-> [w EXCEPT ![c].checkInterval = TRUE,
                                    ![c].screenshotInterval = TRUE,
                                    ![c].isReady = TRUE,
                                    ![c].initializationInProgress = FALSE],
                  bWindows |-> [b EXCEPT ![w[c].window] =
                                  [state |-> IF @.state = "loading" THEN "open" ELSE @.state,
                                   listener |-> TRUE]],
                  pc |-> "true"]
            ELSE InitFailed(w, b, c)

\* The retry counter after the continuation.
RetriesAfter(pc, retries) == IF pc = "retryWait" THEN retries + 1 ELSE retries

\* emit(name) on controller c returned: one more notification of that name.
EventNames == {"ready", "error", "closed", "screenshot"}
Emitted(e, c, name) == [e EXCEPT ![c][name] = @ + 1]

\* What init() has emitted when it ends with `pc`: 'ready' before it returns
\* true, 'error' before it returns false; when emit('error') threw, nothing.
EmitsAfter(e, c, pc) ==
  IF pc = "true" THEN Emitted(e, c, "ready")
  ELSE IF pc = "false" THEN Emitted(e, c, "error")
  ELSE e

\* The rectangles GetWindowRect reports for the native window.
NativeRects ==
  { [Left |-> 0, Top |-> 0, Right |-> 400, Bottom |-> 300],
    [Left |-> 100, Top |-> 50, Right |-> 1100, Bottom |-> 750] }

\* getWindowRect: JSON.parse of what the PowerShell script prints for the
\* rectangle n, an object with the keys X, Y, Width and Height.
ParsedRect(n) ==
  [X |-> n.Left, Y |-> n.Top, Width |-> n.Right - n.Left, Height |-> n.Bottom - n.Top]
Rects == {ParsedRect(n) : n \in NativeRects}

\* Electron's size for a BrowserWindow constructed without width and height,
\* and the position of such a window centred on a 1920 x 1080 work area.
DefaultBounds == [x |-> 560, y |-> 240, width |-> 800, height |-> 600]

\* obj[name], or `otherwise` when obj has no such property.
Property(obj, name, otherwise) == IF name \in DOMAIN obj THEN obj[name] ELSE otherwise

\* new BrowserWindow({width: rect.width, height: rect.height, x: rect.x, y: rect.y, ...})
NewBrowserWindowBounds(rect) ==
  [x |-> Property(rect, "x", DefaultBounds.x), y |-> Property(rect, "y", DefaultBounds.y),
   width |-> Property(rect, "width", DefaultBounds.width),
   height |-> Property(rect, "height", DefaultBounds.height)]

\* BrowserWindow.setBounds(rect) on a window whose bounds are `old`: the
\* properties x, y, width and height of rect that are there are applied.
SetBounds(old, rect) ==
  [x |-> Property(rect, "x", old.x), y |-> Property(rect, "y", old.y),
   width |-> Property(rect, "width", old.width),
   height |-> Property(rect, "height", old.height)]

\* The guard at the head of init().
InitInProgress(c) == wsa[c].initializationInProgress
InitGuarded(c) == InitInProgress(c) \/ wsa[c].isReady

\* The first synchronous part of an init() call that passed the guard, as
\* sequence i: the flag is set and the platform is checked.
InitBegins(w, b, c) ==
  LET w1 == [w EXCEPT ![c].initializationInProgress = TRUE]
  IN IF platform # "win32"
     THEN InitFailed(w1, b, c)
     ELSE [wsa |-> w1, bWindows |-> b, pc |-> "isWSAInstalled"]

\* init() called on controller c: the two guards, then the start of a sequence.
WSAInit(c) ==
  /\ c \in 1..wsaMade
  /\ IF InitGuarded(c)
     THEN /\ wsaLast' = [ev |-> "init", on |-> c,
                         answer |-> IF InitInProgress(c) THEN "false" ELSE "true"]
          /\ UNCHANGED <<wsa, inits, bWindows, wsaEmits>>
     ELSE /\ NextInitId <= MaxInits
          /\ LET r == InitBegins(wsa, bWindows, c)
             IN /\ wsa' = r.wsa
                /\ bWindows' = r.bWindows
                /\ inits' = [inits EXCEPT ![NextInitId] =
                               [c |-> c, pc |-> r.pc, retries |-> 0]]
                /\ wsaEmits' = EmitsAfter(wsaEmits, c, r.pc)
                /\ wsaLast' = [ev |-> "init", on |-> c, answer |-> "started"]
  /\ UNCHANGED <<wsaWindow, wsaMade, wsaListeners, creates, winBounds, ticks>>

\* cleanup() called on controller c by its owner.
WSACleanup(c) ==
  /\ c \in 1..wsaMade
  /\ LET cl == Cleanup(wsa, bWindows, c)
     IN /\ wsa' = cl.wsa
        /\ bWindows' = cl.bWindows
  /\ wsaLast' = [ev |-> "cleanup", on |-> c]
  /\ UNCHANGED <<wsaWindow, wsaMade, wsaListeners, inits, creates, wsaEmits, winBounds, ticks>>

\* ------------------------------------------- Application: the WSA window
\* application.ts (part_006): createWSAWindow and closeWSAWindow behind the
\* CREATE_WSA_WINDOW and CLOSE_WSA_WINDOW handlers.

\* What a createWSAWindow call answered: the controller returned (0 = null),
\* the boolean the IPC handler makes of it, and whether the call had awaited
\* anything before it returned.
Returned(c, awaited) ==
  [ev |-> "createWSAWindow", returned |-> TRUE, result |-> c, ipc |-> c # 0,
   awaited |-> awaited]
Suspended ==
  [ev |-> "createWSAWindow", returned |-> FALSE, result |-> 0, ipc |-> FALSE,
   awaited |-> TRUE]

\* `if (this._wsaWindow)` at the head of createWSAWindow.
ControllerNeverExists == FALSE
ControllerExists == wsaWindow # 0

\* createWSAWindow after Promise.race settled with `initialized` (a rejected
\* init() goes to the catch block, which does what `!initialized` does), on
\* the controllers w and the BrowserWindows b.  this._wsaWindow is read
\* again here: when it is null the call on it throws and the catch block
\* returns null.
RaceSettled(w, b, initialized) ==
  IF wsaWindow = 0
  THEN [wsa |-> w, bWindows |-> b, wsaListeners |-> wsaListeners, wsaWindow |-> 0,
        result |-> 0]
  ELSE IF initialized
       THEN [wsa |-> w, bWindows |-> b, wsaListeners |-> wsaListeners \cup {wsaWindow},
             wsaWindow |-> wsaWindow, result |-> wsaWindow]
       ELSE LET cl == Cleanup(w, b, wsaWindow)
            IN [wsa |-> cl.wsa, bWindows |-> cl.bWindows, wsaListeners |-> wsaListeners,
                wsaWindow |-> 0, result |-> 0]

\* The createWSAWindow call suspended on the race with init() sequence i.
RacingWith(i) == {k \in CreateIds : creates[k].pc = "race" /\ creates[k].init = i}

\* CREATE_WSA_WINDOW: createWSAWindow up to its first await.
CreateWSAWindow ==
  /\ IF platform # "win32"
     THEN wsaLast' = Returned(0, FALSE) /\ UNCHANGED creates
     ELSE IF ControllerExists
          THEN wsaLast' = Returned(wsaWindow, FALSE) /\ UNCHANGED creates
          ELSE /\ NextCreateId <= MaxCreates
               /\ creates' = [creates EXCEPT ![NextCreateId].pc = "requirements"]
               /\ wsaLast' = Suspended
  /\ UNCHANGED <<wsaWindow, wsa, wsaMade, wsaListeners, inits, bWindows, wsaEmits, winBounds,
                 ticks>>

\* checkWSARequirements() resolved for call k: the controller is constructed
\* and stored, init() starts and the call suspends on the race.
RequirementsChecked(k, meetsRequirements) ==
  /\ creates[k].pc = "requirements"
  /\ IF ~meetsRequirements
     THEN /\ creates' = [creates EXCEPT ![k].pc = "returned"]
          /\ wsaLast' = Returned(0, TRUE)
          /\ UNCHANGED <<wsaWindow, wsa, wsaMade, inits, bWindows, wsaEmits>>
     ELSE /\ wsaMade < MaxControllers
          /\ NextInitId <= MaxInits
          /\ LET c == wsaMade + 1
                 r == InitBegins(wsa, bWindows, c)
             IN /\ wsaMade' = c
                /\ wsaWindow' = c
                /\ wsa' = r.wsa
                /\ bWindows' = r.bWindows
                /\ inits' = [inits EXCEPT ![NextInitId] =
                               [c |-> c, pc |-> r.pc, retries |-> 0]]
                /\ creates' = [creates EXCEPT ![k] =
                                 [pc |-> "race", init |-> NextInitId, timedOut |-> FALSE]]
                /\ wsaEmits' = EmitsAfter(wsaEmits, c, r.pc)
                /\ wsaLast' = Suspended
  /\ UNCHANGED <<wsaListeners, winBounds, ticks>>

\* The call init() sequence i awaited answered `ok`: the sequence runs on,
\* and when it ends, the createWSAWindow call racing with it resumes in the
\* same turn of the event loop.
InitResumed(i, ok) ==
  /\ Running(i)
  /\ LET s == inits[i]
         r == InitContinues(i, s.c, s.pc, s.retries, ok)
     IN /\ inits' = [inits EXCEPT ![i] =
                       [c |-> s.c, pc |-> r.pc, retries |-> RetriesAfter(s.pc, s.retries)]]
        /\ IF r.pc \in Outcomes /\ RacingWith(i) # {}
           THEN LET k == CHOOSE x \in RacingWith(i) : TRUE
                    q == RaceSettled(r.wsa, r.bWindows, r.pc = "true")
                IN /\ wsa' = q.wsa
                   /\ bWindows' = q.bWindows
                   /\ wsaListeners' = q.wsaListeners
                   /\ wsaWindow' = q.wsaWindow
                   /\ creates' = [creates EXCEPT ![k].pc = "returned"]
                   /\ wsaLast' = Returned(q.result, TRUE)
           ELSE /\ wsa' = r.wsa
                /\ bWindows' = r.bWindows
                /\ wsaLast' = [ev |-> "init resumed", on |-> s.c, answer |-> r.pc]
                /\ UNCHANGED <<wsaWindow, wsaListeners, creates>>
        /\ wsaEmits' = EmitsAfter(wsaEmits, s.c, r.pc)
        /\ IF s.pc = "getWindowRect" /\ ok
           THEN \E rect \in Rects :
                  winBounds' = [winBounds EXCEPT ![i] = NewBrowserWindowBounds(rect)]
           ELSE UNCHANGED winBounds
  /\ UNCHANGED <<wsaMade, ticks>>

\* The 30-second timer of call k fires while init() is still pending: the
\* race resolves to false.
TimeoutWins(k) ==
  /\ creates[k].pc = "race"
  /\ Running(creates[k].init)
  /\ LET q == RaceSettled(wsa, bWindows, FALSE)
     IN /\ wsa' = q.wsa
        /\ bWindows' = q.bWindows
        /\ wsaListeners' = q.wsaListeners
        /\ wsaWindow' = q.wsaWindow
        /\ wsaLast' = Returned(q.result, TRUE)
  /\ creates' = [creates EXCEPT ![k].pc = "returned", ![k].timedOut = TRUE]
  /\ UNCHANGED <<wsaMade, inits, wsaEmits, winBounds, ticks>>

\* CLOSE_WSA_WINDOW: closeWSAWindow.
CloseWSAWindow ==
  /\ IF wsaWindow # 0
     THEN LET cl == Cleanup(wsa, bWindows, wsaWindow)
          IN /\ wsa' = cl.wsa
             /\ bWindows' = cl.bWindows
             /\ wsaWindow' = 0
     ELSE UNCHANGED <<wsa, bWindows, wsaWindow>>
  /\ wsaLast' = [ev |-> "closeWSAWindow", held |-> wsaWindow, ipc |-> TRUE]
  /\ UNCHANGED <<wsaMade, wsaListeners, inits, creates, wsaEmits, winBounds, ticks>>

\* The embedding window `win` emits 'closed': after close() was called on it
\* or because the user closed the shown window.  The listener init() put on
\* it runs cleanup() and emits 'closed' on the controller, and the listener
\* createWSAWindow put on a controller clears this._wsaWindow.
BrowserWindowClosed(win) ==
  /\ bWindows[win].state \in {"open", "closing"}
  /\ LET c == inits[win].c
         b == [bWindows EXCEPT ![win].state = "destroyed"]
         cl == Cleanup(wsa, b, c)
     IN IF bWindows[win].listener
        THEN /\ wsa' = cl.wsa
             /\ bWindows' = cl.bWindows
             /\ wsaWindow' = IF c \in wsaListeners THEN 0 ELSE wsaWindow
             /\ wsaEmits' = Emitted(wsaEmits, c, "closed")
             /\ wsaLast' = [ev |-> "closed", on |-> c, notified |-> c \in wsaListeners]
        ELSE /\ bWindows' = b
             /\ wsaLast' = [ev |-> "closed", on |-> 0, notified |-> FALSE]
             /\ UNCHANGED <<wsa, wsaWindow, wsaEmits>>
  /\ UNCHANGED <<wsaMade, wsaListeners, inits, creates, winBounds, ticks>>

\* ------------------------------------------- WSAWindow: the polling timers
NextTickId == Cardinality({t \in TickIds : ticks[t].pc # "unused"}) + 1
TickDone == [c |-> 0, timer |-> "none", pc |-> "done"]
ScreenshotPath == "dofustouch_screenshot.png"

\* A capture that answers the path whether or not its commands succeeded.
TakeDofusTouchScreenshotUnguarded(screencap, pull, rm) == ScreenshotPath

\* takeDofusTouchScreenshot (wsa-app-manager): the path of the artifact when
\* the three adb commands succeed, the empty string when one of them throws.
TakeDofusTouchScreenshot(screencap, pull, rm) ==
  IF screencap /\ pull /\ rm THEN ScreenshotPath ELSE ""

\* The guard at the head of the liveness callback.
NothingToCheck(c) ==
  \/ ~wsa[c].wsaHandle
  \/ wsa[c].window = 0
  \/ IsDestroyed(bWindows, wsa[c].window)

\* The timer _startWindowChecking set on controller c fires.
CheckTick(c) ==
  /\ c \in 1..wsaMade
  /\ wsa[c].checkInterval
  /\ IF NothingToCheck(c)
     THEN /\ wsaLast' = [ev |-> "check tick", on |-> c, answer |-> "nothing to check"]
          /\ UNCHANGED ticks
     ELSE /\ NextTickId <= MaxTicks
          /\ ticks' = [ticks EXCEPT ![NextTickId] =
                         [c |-> c, timer |-> "check", pc |-> "isWSAWindow"]]
          /\ wsaLast' = [ev |-> "check tick", on |-> c, answer |-> "isWSAWindow"]
  /\ UNCHANGED <<wsaWindow, wsa, wsaMade, wsaListeners, inits, bWindows, creates, wsaEmits,
                 winBounds>>

\* The call the liveness callback t awaited answered: isWSAWindow with `ok`,
\* getWindowRect with `rect` when ok and with null otherwise.
CheckTickResumed(t, ok, rect) ==
  /\ ticks[t].timer = "check"
  /\ LET c == ticks[t].c
     IN CASE ticks[t].pc = "isWSAWindow" /\ ~ok ->
               LET cl == Cleanup(wsa, bWindows, c)
               IN /\ wsa' = cl.wsa
                  /\ bWindows' = cl.bWindows
                  /\ wsaEmits' = Emitted(wsaEmits, c, "closed")
                  /\ wsaWindow' = IF c \in wsaListeners THEN 0 ELSE wsaWindow
                  /\ ticks' = [ticks EXCEPT ![t] = TickDone]
                  /\ wsaLast' = [ev |-> "check tick resumed", on |-> c, answer |-> "closed"]
                  /\ UNCHANGED winBounds
          [] ticks[t].pc = "isWSAWindow" /\ ok ->
               /\ ticks' = [ticks EXCEPT ![t].pc = "getWindowRect"]
               /\ wsaLast' = [ev |-> "check tick resumed", on |-> c,
                              answer |-> "getWindowRect"]
               /\ UNCHANGED <<wsa, bWindows, wsaEmits, wsaWindow, winBounds>>
          [] ticks[t].pc = "getWindowRect" ->
               /\ IF ok /\ wsa[c].window # 0 /\ ~IsDestroyed(bWindows, wsa[c].window)
                  THEN /\ winBounds' = [winBounds EXCEPT ![wsa[c].window] = SetBounds(@, rect)]
                       /\ wsaLast' = [ev |-> "check tick resumed", on |-> c,
                                      answer |-> "setBounds", rect |-> rect,
                                      win |-> wsa[c].window]
                  ELSE /\ wsaLast' = [ev |-> "check tick resumed", on |-> c,
                                      answer |-> "no setBounds"]
                       /\ UNCHANGED winBounds
               /\ ticks' = [ticks EXCEPT ![t] = TickDone]
               /\ UNCHANGED <<wsa, bWindows, wsaEmits, wsaWindow>>
  /\ UNCHANGED <<wsaMade, wsaListeners, inits, creates>>

\* The timer _startScreenshotCapture set on controller c fires.
ScreenshotTick(c) ==
  /\ c \in 1..wsaMade
  /\ wsa[c].screenshotInterval
  /\ IF ~wsa[c].isReady
     THEN /\ wsaLast' = [ev |-> "screenshot tick", on |-> c, answer |-> "not ready"]
          /\ UNCHANGED ticks
     ELSE /\ NextTickId <= MaxTicks
          /\ ticks' = [ticks EXCEPT ![NextTickId] =
                         [c |-> c, timer |-> "screenshot", pc |-> "takeDofusTouchScreenshot"]]
          /\ wsaLast' = [ev |-> "screenshot tick", on |-> c, answer |-> "capturing"]
  /\ UNCHANGED <<wsaWindow, wsa, wsaMade, wsaListeners, inits, bWindows, creates, wsaEmits,
                 winBounds>>

\* takeDofusTouchScreenshot() resolved for the screenshot callback t, its
\* three adb commands having succeeded or not.
ScreenshotTaken(t, screencap, pull, rm) ==
  /\ ticks[t].timer = "screenshot"
  /\ LET c == ticks[t].c
         screenshotPath == TakeDofusTouchScreenshot(screencap, pull, rm)
     IN /\ wsaEmits' = IF screenshotPath # "" THEN Emitted(wsaEmits, c, "screenshot")
                       ELSE wsaEmits
        /\ wsaLast' = [ev |-> "screenshot taken", on |-> c, path |-> screenshotPath,
                       emitted |-> IF screenshotPath # "" THEN <<screenshotPath>> ELSE <<>>]
  /\ ticks' = [ticks EXCEPT ![t] = TickDone]
  /\ UNCHANGED <<wsaWindow, wsa, wsaMade, wsaListeners, inits, bWindows, creates, winBounds>>

\* No WSAWindow has been constructed.
WsaIdle ==
  /\ wsaWindow = 0
  /\ wsa = [c \in Controllers |-> NewWSAWindow]
  /\ wsaMade = 0
  /\ wsaListeners = {}
  /\ inits = [i \in InitIds |-> NoInit]
  /\ bWindows = [i \in InitIds |-> NoBrowserWindow]
  /\ creates = [k \in CreateIds |-> NoCreate]
  /\ wsaLast = [ev |-> "none"]
  /\ wsaEmits = [c \in Controllers |-> [name \in EventNames |-> 0]]
  /\ winBounds = [i \in InitIds |-> DefaultBounds]
  /\ ticks = [t \in TickIds |-> NoTick]

WsaInit == WsaIdle /\ FnIdle

\* ------------------------------------------------------------ wsa-detector
\* utils/wsa-detector (in window-finder.ts): the availability checks.  The
\* repository holds two revisions of the module.
Earlier == "wsa-detector, lines 212-388"   \* checks without guards or timeouts
Later == "wsa-detector, lines 390-773"     \* platform guards, safeExecPowerShell
Revisions == {Earlier, Later}

\* How an awaited check ends: it answers true or false, or it throws.
CheckOutcomes == {"true", "false", "throws"}
CheckNames == <<"isWindows11", "isWSAInstalled", "isADBAvailable">>

\* The issue strings of checkWSARequirements.
PlatformIssue == "Windows is required for Windows Subsystem for Android"
RequiredIssue ==
  [isWindows11 |-> "Windows 11 is required for Windows Subsystem for Android",
   isWSAInstalled |-> "Windows Subsystem for Android is not installed",
   isADBAvailable |-> "Android Debug Bridge (ADB) is not available"]
ErrorIssue ==
  [isWindows11 |-> "Error checking Windows version: ",
   isWSAInstalled |-> "Error checking if WSA is installed: ",
   isADBAvailable |-> "Error checking if ADB is available: "]
UnexpectedIssue == "Unexpected error checking WSA requirements: "

\* A check whose exception is swallowed without an issue.
IssuesOfCheckIgnoresThrow(name, outcome) ==
  IF outcome = "false" THEN <<RequiredIssue[name]>> ELSE <<>>

\* One check of the later revision, inside its own try / catch: the issues
\* it appends.
IssuesOfCheck(name, outcome) ==
  CASE outcome = "true" -> <<>>
    [] outcome = "false" -> <<RequiredIssue[name]>>
    [] outcome = "throws" -> <<ErrorIssue[name]>>

Resolved(issues, ran) ==
  [settled |-> "resolved", meetsRequirements |-> Len(issues) = 0, issues |-> issues,
   ran |-> ran]
Rejected(ran) == [settled |-> "rejected", ran |-> ran]

\* The earlier revision: the checks are awaited one after the other with no
\* try / catch, so a check that throws rejects the call.
RECURSIVE EarlierChecks(_, _, _)
EarlierChecks(outcomes, k, issues) ==
  IF k > Len(CheckNames)
  THEN Resolved(issues, CheckNames)
  ELSE IF outcomes[k] = "throws"
       THEN Rejected(SubSeq(CheckNames, 1, k))
       ELSE EarlierChecks(outcomes, k + 1,
                          issues \o IssuesOfCheck(CheckNames[k], outcomes[k]))

\* A later revision without the platform test at its head.
CheckWSARequirementsOnAnyPlatform(revision, plat, outcomes) ==
  IF revision = Earlier
  THEN EarlierChecks(outcomes, 1, <<>>)
  ELSE Resolved(IssuesOfCheck("isWindows11", outcomes[1])
                  \o IssuesOfCheck("isWSAInstalled", outcomes[2])
                  \o IssuesOfCheck("isADBAvailable", outcomes[3]),
                CheckNames)

\* checkWSARequirements() on platform plat, the three checks ending as
\* outcomes: the answer, and the checks that were executed.
CheckWSARequirements(revision, plat, outcomes) ==
  IF revision = Earlier
  THEN EarlierChecks(outcomes, 1, <<>>)
  ELSE IF plat # "win32"
       THEN Resolved(<<PlatformIssue>>, <<>>)
       ELSE Resolved(IssuesOfCheck("isWindows11", outcomes[1])
                       \o IssuesOfCheck("isWSAInstalled", outcomes[2])
                       \o IssuesOfCheck("isADBAvailable", outcomes[3]),
                     CheckNames)

\* What the three checks can answer on a platform: off Windows the checks of
\* the later revision return false at their first line, and in the earlier
\* revision the two PowerShell probes fail.
Possible(revision, plat, outcomes) ==
  \/ plat = "win32"
  \/ /\ outcomes[1] = "false"
     /\ outcomes[2] = "false"
     /\ revision = Later => outcomes[3] = "false"

\* checkWSARequirements() is called.
CheckRequirementsCalled ==
  /\ fnArgs.fn = "checkWSARequirements"
  /\ fnResult = <<>>
  /\ fnResult' = <<CheckWSARequirements(fnArgs.revision, platform, fnArgs.outcomes)>>
  /\ UNCHANGED fnArgs

\* What a command prints, as the sequence of the words and separators of the
\* text.
Whitespace == {" ", "\n"}
Stdouts ==
  { <<>>, <<"\n">>,
    <<"Running", "\n">>, <<"Stopped", "\n">>,
    <<"True", "\n">>, <<"False", "\n">>,
    <<"ERROR:", " ", "denied", "\n">>,
    <<"WsaClient", "\n">>,
    <<"10", ".", "0", ".", "22631", "\n">>,
    <<"10", ".", "0", ".", "19045", "\n">>,
    <<"10", ".", "0", "\n">>,
    <<"127.0.0.1:58526", " ", "device", "\n">> }

\* How a command ends: the process exits with code 0 or with another code,
\* having printed stdout, or it is still running when the timer fires.
Exited(code, stdout) == [ends |-> code, stdout |-> stdout]
TimedOut == [ends |-> "timeout", stdout |-> <<>>]
Failures == {TimedOut, Exited("exit 1", <<>>), Exited("exit 1", <<"ERROR:", " ", "denied", "\n">>)}
Endings == Failures \cup {Exited("exit 0", stdout) : stdout \in Stdouts}

\* String.prototype.trim
RECURSIVE TrimStart(_)
TrimStart(text) ==
  IF Len(text) > 0 /\ Head(text) \in Whitespace THEN TrimStart(Tail(text)) ELSE text
RECURSIVE TrimEnd(_)
TrimEnd(text) ==
  IF Len(text) > 0 /\ text[Len(text)] \in Whitespace
  THEN TrimEnd(SubSeq(text, 1, Len(text) - 1))
  ELSE text
Trim(text) == TrimEnd(TrimStart(text))

\* String.prototype.includes: a word of the text contains `sub`.
Substrings(word) == IF word = "ERROR:" THEN {"ERROR:", "ERROR"} ELSE {word}
Includes(text, sub) == \E j \in 1..Len(text) : sub \in Substrings(text[j])

\* String.prototype.toLowerCase
LowerCaseOf(word) ==
  CASE word \in {"True", "TRUE"} -> "true"
    [] word \in {"False", "FALSE"} -> "false"
    [] OTHER -> word
ToLowerCase(text) == [j \in 1..Len(text) |-> LowerCaseOf(text[j])]

\* String.prototype.split('.')
RECURSIVE Split(_, _)
Split(text, part) ==
  IF Len(text) = 0
  THEN <<part>>
  ELSE IF Head(text) = "."
       THEN <<part>> \o Split(Tail(text), <<>>)
       ELSE Split(Tail(text), Append(part, Head(text)))

\* parseInt: the number a numeral denotes, NaN for a text that starts with
\* no numeral.  NaN compares false with every number.
NaN == -1
Numerals ==
  [w \in {"0", "10", "19045", "22000", "22631"} |->
     CASE w = "0" -> 0 [] w = "10" -> 10 [] w = "19045" -> 19045
       [] w = "22000" -> 22000 [] w = "22631" -> 22631]
ParseInt(text) ==
  IF Len(text) > 0 /\ text[1] \in DOMAIN Numerals THEN Numerals[text[1]] ELSE NaN
AtLeast(n, m) == n # NaN /\ n >= m

\* A string is truthy when it is not empty.
Truthy(text) == Len(text) > 0

\* A safeExecPowerShell that hands on what a failed command left.
SafeExecPowerShellUnguarded(ending) ==
  IF ending.ends = "timeout" THEN <<"timeout">> ELSE Trim(ending.stdout)

\* safeExecPowerShell: the trimmed output of a command that exited with code
\* 0; the empty string when execAsync rejected (exit code not 0) or the
\* timeout won the race.
SafeExecPowerShell(ending) ==
  IF ending.ends = "exit 0" THEN Trim(ending.stdout) ELSE <<>>

\* The answer of an availability check and the probes of it that were
\* satisfied.
Available(by) == [result |-> TRUE, satisfied |-> {by}]
Unavailable == [result |-> FALSE, satisfied |-> {}]

\* isWSAInstalled (later revision), its three commands ending as `probes`.
IsWSAInstalled(plat, probes) ==
  LET serviceResult == SafeExecPowerShell(probes[1])
      appxResult == SafeExecPowerShell(probes[2])
      dirResult == SafeExecPowerShell(probes[3])
  IN IF plat # "win32" THEN Unavailable
     ELSE IF Truthy(serviceResult) /\ ~Includes(serviceResult, "ERROR") THEN Available(1)
     ELSE IF Truthy(appxResult) /\ ~Includes(appxResult, "ERROR") THEN Available(2)
     ELSE IF Truthy(dirResult) /\ ToLowerCase(dirResult) = <<"true">> THEN Available(3)
     ELSE Unavailable

\* isWSARunning (later revision): the service and the process probe, then
\* `adb devices`, run without a timeout and inside its own try / catch.
wsaDevice == "127.0.0.1:58526"
IsWSARunning(plat, probes) ==
  LET serviceResult == SafeExecPowerShell(probes[1])
      processResult == SafeExecPowerShell(probes[2])
  IN IF plat # "win32" THEN Unavailable
     ELSE IF Truthy(serviceResult) /\ serviceResult = <<"Running">> THEN Available(1)
     ELSE IF Truthy(processResult) /\ ~Includes(processResult, "ERROR") THEN Available(2)
     ELSE IF probes[3].ends = "exit 0" /\ Includes(probes[3].stdout, wsaDevice)
          THEN Available(3)
     ELSE Unavailable

\* isWindows11 (later revision): the build number of the version is at
\* least 22000.
Windows11Build == 22000
IsWindows11(plat, probes) ==
  LET version == Trim(SafeExecPowerShell(probes[1]))
      versionParts == Split(version, <<>>)
  IN IF plat # "win32" THEN Unavailable
     ELSE IF Len(versionParts) >= 3 /\ AtLeast(ParseInt(versionParts[3]), Windows11Build)
          THEN Available(1)
     ELSE Unavailable

\* The availability checks and the probes each of them builds on
\* safeExecPowerShell.
Checks == {"isWindows11", "isWSAInstalled", "isWSARunning"}
GuardedProbes(fn) ==
  CASE fn = "isWindows11" -> {1}
    [] fn = "isWSAInstalled" -> {1, 2, 3}
    [] fn = "isWSARunning" -> {1, 2}
Check(fn, plat, probes) ==
  CASE fn = "isWindows11" -> IsWindows11(plat, probes)
    [] fn = "isWSAInstalled" -> IsWSAInstalled(plat, probes)
    [] fn = "isWSARunning" -> IsWSARunning(plat, probes)

\* One of the availability checks is called.
CheckCalled ==
  /\ fnArgs.fn \in Checks
  /\ fnResult = <<>>
  /\ fnResult' = <<Check(fnArgs.fn, platform, fnArgs.probes)>>
  /\ UNCHANGED fnArgs

\* The two copies of WSAWindow in the repository.
WsaWindowCurrent == "wsa-window.ts"
WsaWindowEarlier == "part_008"
WsaWindowVariants == {WsaWindowCurrent, WsaWindowEarlier}

\* How an adb command run with execAsync ends: exit code 0, another exit
\* code, or adb cannot be spawned.  execAsync rejects in the last two.
AdbEndings == {"exit 0", "exit 1", "ENOENT"}

\* stopDofusTouch / launchDofusTouch (wsa-app-manager): true when the adb
\* command succeeded, false from the catch block.
StopDofusTouch(adb) == adb = "exit 0"
LaunchDofusTouch(adb) == adb = "exit 0"

\* restartDofusTouch(): the calls it made and the value it resolved to.
\* Neither awaited call throws, so the catch block is not entered.
RestartDofusTouch(wsaVariant, stop, launch) ==
  LET stopped == StopDofusTouch(stop)
      launched == LaunchDofusTouch(launch)
  IN [settled |-> "resolved",
      calls |-> <<"stopDofusTouch", "launchDofusTouch">>,
      value |-> IF wsaVariant = WsaWindowCurrent THEN launched ELSE TRUE]

\* restartDofusTouch() is called.
RestartCalled ==
  /\ fnArgs.fn = "restartDofusTouch"
  /\ fnResult = <<>>
  /\ fnResult' = <<RestartDofusTouch(fnArgs.wsaVariant, fnArgs.stop, fnArgs.launch)>>
  /\ UNCHANGED fnArgs

\* startWSA() polls isWSARunning() after it asked the service to start.
maxAttempts == 10
MaxRunningChecks == 11

\* while (attempts < maxAttempts): the poll from its attempts-th round on,
\* `running` being the answers isWSARunning() gives from this round on.  The
\* answer of startWSA and the number of checks the poll made.
RECURSIVE StartPoll(_, _)
StartPoll(attempts, running) ==
  IF attempts < maxAttempts
  THEN IF Head(running)
       THEN [result |-> TRUE, checks |-> attempts + 1]
       ELSE StartPoll(attempts + 1, Tail(running))
  ELSE [result |-> FALSE, checks |-> attempts]

\* startWSA() on platform plat: `started` says whether the Start-Service
\* command of the earlier revision succeeded, `running` lists the answers of
\* the successive isWSARunning() calls.
StartWSA(revision, plat, started, running) ==
  IF revision = Earlier
  THEN IF started THEN StartPoll(0, running) ELSE [result |-> FALSE, checks |-> 0]
  ELSE IF plat # "win32"
       THEN [result |-> FALSE, checks |-> 0]
       ELSE IF Head(running)
            THEN [result |-> TRUE, checks |-> 0]
            ELSE StartPoll(0, Tail(running))

\* startWSA() is called.
StartWSACalled ==
  /\ fnArgs.fn = "startWSA"
  /\ fnResult = <<>>
  /\ fnResult' = <<StartWSA(fnArgs.revision, platform, fnArgs.started, fnArgs.running)>>
  /\ UNCHANGED fnArgs

\* JSON.stringify of { meetsRequirements, issues }: the tokens of the text,
\* a string literal carrying its characters.
Punct(t) == [t |-> t]
StringLiteral(v) == [t |-> "string", v |-> v]
RECURSIVE Elements(_)
Elements(strings) ==
  IF Len(strings) = 0
  THEN <<>>
  ELSE IF Len(strings) = 1
       THEN <<StringLiteral(strings[1])>>
       ELSE <<StringLiteral(strings[1]), Punct(",")>> \o Elements(Tail(strings))
Stringify(r) ==
  <<Punct("{"), StringLiteral("meetsRequirements"), Punct(":"),
    Punct(IF r.meetsRequirements THEN "true" ELSE "false"), Punct(","),
    StringLiteral("issues"), Punct(":"), Punct("[")>>
  \o Elements(r.issues) \o <<Punct("]"), Punct("}")>>

\* What an ipcMain.handle handler makes of its invocation.
HandlerResolved(value) == [settled |-> "resolved", value |-> value]
HandlerRejected == [settled |-> "rejected"]
HandlerIssue == "Error checking requirements"

\* A CHECK_WSA_REQUIREMENTS handler without its try / catch.
CheckRequirementsHandlerUnguarded(r) ==
  IF r.settled = "resolved" THEN HandlerResolved(Stringify(r)) ELSE HandlerRejected

\* The CHECK_WSA_REQUIREMENTS handler, checkWSARequirements() having
\* settled as r.
CheckRequirementsHandler(r) ==
  IF r.settled = "resolved"
  THEN HandlerResolved(Stringify(r))
  ELSE HandlerResolved(Stringify([meetsRequirements |-> FALSE,
                                  issues |-> <<HandlerIssue>>]))

\* How the createWSAWindow() call of the CREATE_WSA_WINDOW handler can end.
CreateOutcomes == {"controller", "null", "throws"}

\* The CREATE_WSA_WINDOW handler: `!!wsaWindow`, false from the catch block.
CreateHandler(created) == HandlerResolved(created = "controller")

\* The renderer invokes CHECK_WSA_REQUIREMENTS.
CheckRequirementsInvoked ==
  /\ fnArgs.fn = "CHECK_WSA_REQUIREMENTS"
  /\ fnResult = <<>>
  /\ fnResult' = <<CheckRequirementsHandler(
                     CheckWSARequirements(fnArgs.revision, platform, fnArgs.outcomes))>>
  /\ UNCHANGED fnArgs

\* The renderer invokes CREATE_WSA_WINDOW.
CreateInvoked ==
  /\ fnArgs.fn = "CREATE_WSA_WINDOW"
  /\ fnResult = <<>>
  /\ fnResult' = <<CreateHandler(fnArgs.created)>>
  /\ UNCHANGED fnArgs

\* ------------------------------------------------------- specifications
GWInit ==
  /\ variant \in Variants
  /\ sameSiteDefault \in SameSiteDefaults
  /\ closed = FALSE
  /\ authBrowserView = 0
  /\ viewsCreated = 0
  /\ attached = {}
  /\ detaches = [v \in Views |-> 0]
  /\ reloads = [c \in {"then", "intercept"} |-> 0]
  /\ signals = [x \in Views \X Triggers |-> 0]
  /\ primaryJar = {}
  /\ primaryStorage = {}
  /\ seqs = EmptyBag
  /\ completed = <<>>
  /\ last = Acted("constructed", "none")
  /\ shortcuts \in SUBSET Accelerators
  /\ observing = TRUE
  /\ closeNotices = <<>>

Init ==
  AppInit /\ MainIdle /\ platform = "win32" /\ GWInit /\ sameSiteDefault = "lax" /\ shortcuts = {}
  /\ WsaInit

\* One GameWindow: every handler it registers and every continuation of
\* _transferCookies, with the Application left alone.
Next ==
  \/ \E u \in URLs : WindowOpen(u) /\ UNCHANGED <<appVars, wsaVars, fnVars, mainVars>>
  \/ \E v \in Views, msg \in Messages : AuthConsoleMessage(v, msg) /\ UNCHANGED <<appVars, wsaVars, fnVars, mainVars>>
  \/ \E v \in Views, u \in URLs : AuthDidNavigate(v, u) /\ UNCHANGED <<appVars, wsaVars, fnVars, mainVars>>
  \/ \E v \in Views, u \in URLs : AuthWillNavigate(v, u) /\ UNCHANGED <<appVars, wsaVars, fnVars, mainVars>>
  \/ \E v \in Views, u \in URLs : AuthWindowOpen(v, u) /\ UNCHANGED <<appVars, wsaVars, fnVars, mainVars>>
  \/ CloseWindow /\ UNCHANGED <<appVars, wsaVars, fnVars, mainVars>>
  \/ \E s \in InFlight, list \in CookieLists({SessionCookie}, MaxCookies) :
       CookiesGetResolved(s, list) /\ UNCHANGED <<appVars, wsaVars, fnVars, mainVars>>
  \/ \E s \in InFlight : CookiesGetRejected(s) /\ UNCHANGED <<appVars, wsaVars, fnVars, mainVars>>
  \/ \E s \in InFlight, ok \in BOOLEAN : CookieSetSettled(s, ok) /\ UNCHANGED <<appVars, wsaVars, fnVars, mainVars>>
  \/ \E s \in InFlight, data \in SUBSET LsKeys, ok \in BOOLEAN :
       LocalStorageRead(s, data, ok) /\ UNCHANGED <<appVars, wsaVars, fnVars, mainVars>>
  \/ \E s \in InFlight, ok \in BOOLEAN : LocalStorageWritten(s, ok) /\ UNCHANGED <<appVars, wsaVars, fnVars, mainVars>>

Spec == Init /\ [][Next]_vars

\* The Application's list of game windows, with the windows' insides left alone.
AppSpecInit ==
  AppInit /\ MainIdle /\ GWInit /\ variant = Current /\ sameSiteDefault = "lax" /\ shortcuts = {} /\ WsaInit

AppSpecNext ==
  \/ CreateGameWindowBegin /\ UNCHANGED <<gwVars, wsaVars, fnVars, mainVars>>
  \/ \E p \in 1..MaxWindows : CreateGameWindowFinish(p) /\ UNCHANGED <<gwVars, wsaVars, fnVars, mainVars>>
  \/ \E id \in 1..MaxWindows : WinCloseEvent(id) /\ UNCHANGED <<gwVars, wsaVars, fnVars, mainVars>>

AppSpec == AppSpecInit /\ [][AppSpecNext]_vars

\* The audio of the game windows: windows are created, focused and blurred,
\* their renderers ask to mute and unmute them, and the two options change.
AudioInit ==
  /\ AppInit /\ platform = "win32"
  /\ GWInit /\ variant = Current /\ sameSiteDefault = "lax" /\ shortcuts = {} /\ WsaInit
  /\ instance = TRUE
  /\ openUrls = 0
  /\ uncaught = 0
  /\ winReloads = [id \in 1..MaxWindows |-> 0]
  /\ audioMutedOption \in BOOLEAN
  /\ soundOnFocus \in BOOLEAN
  /\ isMuted = [id \in 1..MaxWindows |-> FALSE]
  /\ audioMuted = [id \in 1..MaxWindows |-> FALSE]
  /\ audioLast = [op |-> "none"]

AudioNext ==
  \/ CreateGameWindowBegin /\ UNCHANGED <<gwVars, wsaVars, fnVars, mainVars>>
  \/ \E p \in 1..MaxWindows : GameWindowConstructed(p) /\ UNCHANGED <<gwVars, wsaVars, fnVars>>
  \/ \E id \in 1..MaxWindows : Focus(id) /\ UNCHANGED <<appVars, gwVars, wsaVars, fnVars>>
  \/ \E id \in 1..MaxWindows : Blur(id) /\ UNCHANGED <<appVars, gwVars, wsaVars, fnVars>>
  \/ \E id \in 1..MaxWindows, value \in BOOLEAN :
       AudioMuteWindow(id, value) /\ UNCHANGED <<appVars, gwVars, wsaVars, fnVars>>
  \/ \E value \in BOOLEAN : AudioMutedObserved(value) /\ UNCHANGED <<appVars, gwVars, wsaVars, fnVars>>
  \/ \E value \in BOOLEAN : SoundOnFocusSet(value) /\ UNCHANGED <<appVars, gwVars, wsaVars, fnVars>>

AudioSpec == AudioInit /\ [][AudioNext]_vars

\* The app from its start: 'open-url' events arrive at any moment, before and
\* after the Application is initialised; once it is, windows are created and
\* closed.
OpenUrlInit ==
  /\ AppInit
  /\ GWInit /\ variant = Current /\ sameSiteDefault = "lax" /\ shortcuts = {} /\ WsaInit
  /\ instance = FALSE
  /\ openUrls = 0
  /\ uncaught = 0
  /\ winReloads = [id \in 1..MaxWindows |-> 0]
  /\ audioMutedOption = FALSE
  /\ soundOnFocus = FALSE
  /\ isMuted = [id \in 1..MaxWindows |-> FALSE]
  /\ audioMuted = [id \in 1..MaxWindows |-> FALSE]
  /\ audioLast = [op |-> "none"]

OpenUrlNext ==
  \/ WhenReady /\ UNCHANGED <<appVars, gwVars, wsaVars, fnVars>>
  \/ OpenUrl /\ UNCHANGED <<appVars, gwVars, wsaVars, fnVars>>
  \/ instance /\ CreateGameWindowBegin /\ UNCHANGED <<gwVars, wsaVars, fnVars, mainVars>>
  \/ \E p \in 1..MaxWindows : CreateGameWindowFinish(p) /\ UNCHANGED <<gwVars, wsaVars, fnVars, mainVars>>
  \/ \E id \in 1..MaxWindows : WinCloseEvent(id) /\ UNCHANGED <<gwVars, wsaVars, fnVars, mainVars>>

OpenUrlSpec == OpenUrlInit /\ [][OpenUrlNext]_vars

\* One completion sequence alone: a window-open creates the auth view, one
\* navigation match starts the transfer, and the transfer runs to its end on
\* any list of cookie records, with no other event of the window in between.
TransferInit == AppInit /\ MainIdle /\ platform = "win32" /\ GWInit /\ shortcuts = {} /\ WsaInit

TransferNext ==
  \/ \E u \in URLs : viewsCreated = 0 /\ WindowOpen(u) /\ UNCHANGED <<appVars, wsaVars, fnVars, mainVars>>
  \/ \E u \in URLs : SignalsFired = 0 /\ AuthDidNavigate(1, u) /\ UNCHANGED <<appVars, wsaVars, fnVars, mainVars>>
  \/ \E s \in InFlight, list \in CookieLists(CookieRecords, MaxCookieRecords) :
       CookiesGetResolved(s, list) /\ UNCHANGED <<appVars, wsaVars, fnVars, mainVars>>
  \/ \E s \in InFlight : CookiesGetRejected(s) /\ UNCHANGED <<appVars, wsaVars, fnVars, mainVars>>
  \/ \E s \in InFlight, ok \in BOOLEAN : CookieSetSettled(s, ok) /\ UNCHANGED <<appVars, wsaVars, fnVars, mainVars>>
  \/ \E s \in InFlight, data \in SUBSET LsKeys, ok \in BOOLEAN :
       LocalStorageRead(s, data, ok) /\ UNCHANGED <<appVars, wsaVars, fnVars, mainVars>>
  \/ \E s \in InFlight, ok \in BOOLEAN : LocalStorageWritten(s, ok) /\ UNCHANGED <<appVars, wsaVars, fnVars, mainVars>>

TransferSpec == TransferInit /\ [][TransferNext]_vars

\* One GameWindow's shortcuts and its close: the auth view is opened, the
\* hotkey store changes, the window closes.
CloseInit == AppInit /\ MainIdle /\ platform = "win32" /\ GWInit /\ sameSiteDefault = "lax" /\ WsaInit

CloseNext ==
  \/ \E u \in URLs : WindowOpen(u) /\ UNCHANGED <<appVars, wsaVars, fnVars, mainVars>>
  \/ \E tabs \in SUBSET Accelerators : HotkeyStoreChanged(tabs) /\ UNCHANGED <<appVars, wsaVars, fnVars, mainVars>>
  \/ CloseWindow /\ UNCHANGED <<appVars, wsaVars, fnVars, mainVars>>

CloseSpec == CloseInit /\ [][CloseNext]_vars

\* The answers the system gives to the calls init() awaits: any, except that
\* the native-window lookup of one sequence misses at most MaxMisses times.
Answers(i, ok) ==
  ok \/ inits[i].pc # "findWindowByTitle" \/ inits[i].retries < MaxMisses

\* The Application's WSA window: the two IPC requests, the continuations of
\* createWSAWindow and of init(), the timeout and the embedding windows'
\* 'closed' events.
WsaSpecInit ==
  AppInit /\ MainIdle /\ GWInit /\ variant = Current /\ sameSiteDefault = "lax" /\ shortcuts = {} /\ WsaInit

WsaSpecNext ==
  \/ CreateWSAWindow /\ UNCHANGED <<appVars, gwVars, fnVars, mainVars>>
  \/ \E k \in CreateIds, meetsRequirements \in BOOLEAN :
       RequirementsChecked(k, meetsRequirements) /\ UNCHANGED <<appVars, gwVars, fnVars, mainVars>>
  \/ \E i \in InitIds, ok \in BOOLEAN :
       Answers(i, ok) /\ InitResumed(i, ok) /\ UNCHANGED <<appVars, gwVars, fnVars, mainVars>>
  \/ \E k \in CreateIds : TimeoutWins(k) /\ UNCHANGED <<appVars, gwVars, fnVars, mainVars>>
  \/ CloseWSAWindow /\ UNCHANGED <<appVars, gwVars, fnVars, mainVars>>
  \/ \E win \in InitIds : BrowserWindowClosed(win) /\ UNCHANGED <<appVars, gwVars, fnVars, mainVars>>

WsaSpec == WsaSpecInit /\ [][WsaSpecNext]_vars

\* One WSAWindow taken alone: its owner calls init() and cleanup() on it at
\* any moment, with or without listeners registered.
WsaWindowInit ==
  /\ AppInit /\ MainIdle /\ GWInit /\ variant = Current /\ sameSiteDefault = "lax" /\ shortcuts = {}
  /\ wsaWindow = 0
  /\ wsa = [c \in Controllers |-> NewWSAWindow]
  /\ wsaMade = 1
  /\ wsaListeners \in SUBSET {1}
  /\ inits = [i \in InitIds |-> NoInit]
  /\ bWindows = [i \in InitIds |-> NoBrowserWindow]
  /\ creates = [k \in CreateIds |-> NoCreate]
  /\ wsaLast = [ev |-> "none"]
  /\ wsaEmits = [c \in Controllers |-> [name \in EventNames |-> 0]]
  /\ winBounds = [i \in InitIds |-> DefaultBounds]
  /\ ticks = [t \in TickIds |-> NoTick]
  /\ FnIdle

WsaWindowNext ==
  \/ WSAInit(1) /\ UNCHANGED <<appVars, gwVars, fnVars, mainVars>>
  \/ \E i \in InitIds, ok \in BOOLEAN :
       Answers(i, ok) /\ InitResumed(i, ok) /\ UNCHANGED <<appVars, gwVars, fnVars, mainVars>>
  \/ WSACleanup(1) /\ UNCHANGED <<appVars, gwVars, fnVars, mainVars>>
  \/ \E win \in InitIds : BrowserWindowClosed(win) /\ UNCHANGED <<appVars, gwVars, fnVars, mainVars>>

WsaWindowSpec == WsaWindowInit /\ [][WsaWindowNext]_vars

\* One WSAWindow with its two polling timers: its owner calls init() and
\* cleanup(), the timers fire, the native window and the adb commands answer
\* anything, the embedding window is closed.
PollInit == WsaWindowInit /\ platform = "win32"

PollNext ==
  \/ WSAInit(1) /\ UNCHANGED <<appVars, gwVars, fnVars, mainVars>>
  \/ \E i \in InitIds, ok \in BOOLEAN :
       Answers(i, ok) /\ InitResumed(i, ok) /\ UNCHANGED <<appVars, gwVars, fnVars, mainVars>>
  \/ WSACleanup(1) /\ UNCHANGED <<appVars, gwVars, fnVars, mainVars>>
  \/ \E win \in InitIds : BrowserWindowClosed(win) /\ UNCHANGED <<appVars, gwVars, fnVars, mainVars>>
  \/ CheckTick(1) /\ UNCHANGED <<appVars, gwVars, fnVars, mainVars>>
  \/ \E t \in TickIds, ok \in BOOLEAN, rect \in Rects :
       CheckTickResumed(t, ok, rect) /\ UNCHANGED <<appVars, gwVars, fnVars, mainVars>>
  \/ ScreenshotTick(1) /\ UNCHANGED <<appVars, gwVars, fnVars, mainVars>>
  \/ \E t \in TickIds, screencap \in BOOLEAN, pull \in BOOLEAN, rm \in BOOLEAN :
       ScreenshotTaken(t, screencap, pull, rm) /\ UNCHANGED <<appVars, gwVars, fnVars, mainVars>>

PollSpec == PollInit /\ [][PollNext]_vars

\* The three checks of checkWSARequirements on every platform, with every
\* combination of their outcomes.
RequirementsInit ==
  /\ AppInit /\ MainIdle /\ GWInit /\ variant = Current /\ sameSiteDefault = "lax" /\ shortcuts = {}
  /\ WsaIdle
  /\ fnArgs \in [fn : {"checkWSARequirements"}, revision : Revisions,
                 outcomes : [1..3 -> CheckOutcomes]]
  /\ Possible(fnArgs.revision, platform, fnArgs.outcomes)
  /\ fnResult = <<>>

RequirementsNext ==
  \/ CheckRequirementsCalled /\ UNCHANGED <<appVars, gwVars, wsaVars, mainVars>>

RequirementsSpec == RequirementsInit /\ [][RequirementsNext]_vars

\* The transient waits of init(): one controller whose init() is called and
\* whose awaited calls answer anything, the native-window lookup missing as
\* often as it may; and startWSA() called with any answers of its polls.
WaitInit ==
  \/ WsaWindowInit
  \/ /\ AppInit /\ MainIdle /\ GWInit /\ variant = Current /\ sameSiteDefault = "lax" /\ shortcuts = {}
     /\ WsaIdle
     /\ fnArgs \in [fn : {"startWSA"}, revision : Revisions, started : BOOLEAN,
                    running : [1..MaxRunningChecks -> BOOLEAN]]
     /\ fnResult = <<>>

WaitNext ==
  \/ WSAInit(1) /\ UNCHANGED <<appVars, gwVars, fnVars, mainVars>>
  \/ \E i \in InitIds, ok \in BOOLEAN :
       InitResumed(i, ok) /\ UNCHANGED <<appVars, gwVars, fnVars, mainVars>>
  \/ StartWSACalled /\ UNCHANGED <<appVars, gwVars, wsaVars, mainVars>>

WaitSpec == WaitInit /\ [][WaitNext]_vars

\* The availability checks of the later revision, each called once, its
\* commands ending in any way (`adb devices` has no timeout).
ProbeInit ==
  /\ AppInit /\ MainIdle /\ GWInit /\ variant = Current /\ sameSiteDefault = "lax" /\ shortcuts = {}
  /\ WsaIdle
  /\ fnArgs \in [fn : Checks, probes : [1..3 -> Endings]]
  /\ \A j \in (1..3) \ GuardedProbes(fnArgs.fn) : fnArgs.probes[j].ends # "timeout"
  /\ fnResult = <<>>

ProbeNext ==
  CheckCalled /\ UNCHANGED <<appVars, gwVars, wsaVars, mainVars>>

ProbeSpec == ProbeInit /\ [][ProbeNext]_vars

\* restartDofusTouch() of either copy of WSAWindow, called once, its two adb
\* commands ending in any way.
RestartInit ==
  /\ AppInit /\ MainIdle /\ GWInit /\ variant = Current /\ sameSiteDefault = "lax" /\ shortcuts = {}
  /\ WsaIdle
  /\ fnArgs \in [fn : {"restartDofusTouch"}, wsaVariant : WsaWindowVariants,
                 stop : AdbEndings, launch : AdbEndings]
  /\ fnResult = <<>>

RestartNext ==
  RestartCalled /\ UNCHANGED <<appVars, gwVars, wsaVars, mainVars>>

RestartSpec == RestartInit /\ [][RestartNext]_vars

\* The two WSA IPC handlers that answer the renderer, each invoked once.
HandlerInit ==
  /\ AppInit /\ MainIdle /\ GWInit /\ variant = Current /\ sameSiteDefault = "lax" /\ shortcuts = {}
  /\ WsaIdle
  /\ \/ /\ fnArgs \in [fn : {"CHECK_WSA_REQUIREMENTS"}, revision : Revisions,
                       outcomes : [1..3 -> CheckOutcomes]]
        /\ Possible(fnArgs.revision, platform, fnArgs.outcomes)
     \/ fnArgs \in [fn : {"CREATE_WSA_WINDOW"}, created : CreateOutcomes]
  /\ fnResult = <<>>

HandlerNext ==
  \/ CheckRequirementsInvoked /\ UNCHANGED <<appVars, gwVars, wsaVars, mainVars>>
  \/ CreateInvoked /\ UNCHANGED <<appVars, gwVars, wsaVars, mainVars>>

HandlerSpec == HandlerInit /\ [][HandlerNext]_vars

\* ------------------------------------------------------------ properties
\* C1: at every moment any two game windows that are open at the same time
\* have different session partitions 'persist:<index>'.
C1_DistinctPartitions ==
  \A i, j \in 1..Len(gWindows) :
    i # j => Partition(gWindows[i]) # Partition(gWindows[j])

\* C2: a GameWindow has at most one auth BrowserView attached at any time; an
\* https window-open request that arrives while one is attached creates no
\* second one and, when the handler routes the URL to the auth view, loads it
\* in the existing one.
C2_AtMostOneAuthSession ==
  [][ /\ Cardinality(attached) <= 1
      /\ Cardinality(attached') <= 1
      /\ \A u \in URLs :
           (u.scheme = "https:" /\ authBrowserView # 0 /\ last'.ev = "window-open"
              /\ WindowOpen(u))
           => /\ viewsCreated' = viewsCreated
              /\ authBrowserView' = authBrowserView
              /\ attached' = attached
              /\ (variant = Filtered => IsAuthUrl(u))
                 => (last'.url = u /\ last'.loadedIn = authBrowserView) ]_vars

\* a sequence started in view 1 is still in flight and the last event, an
\* https window-open, was loaded in that same view: it arrived while attached
C2_Witness ==
  /\ last.ev = "window-open"
  /\ last.url.scheme = "https:"
  /\ last.loadedIn = 1
  /\ authBrowserView = 1
  /\ viewsCreated = 1
  /\ 1 \in attached
  /\ \E s \in InFlight : s.src = 1

\* What the window-open handler of the primary session does with URL u when it
\* loads it in the auth view: a view is attached afterwards, created only if
\* there was none, and u was passed to its loadURL.
LoadedInAuthSession(u) ==
  /\ authBrowserView' # 0
  /\ authBrowserView' \in attached'
  /\ authBrowserView # 0 => (authBrowserView' = authBrowserView /\ viewsCreated' = viewsCreated)
  /\ authBrowserView = 0 => (authBrowserView' = viewsCreated' /\ viewsCreated' = viewsCreated + 1)
  /\ last'.url = u
  /\ last'.loadedIn = authBrowserView'

\* C3 (as stated): every window-open request of the primary session is denied;
\* if the URL starts with 'https:' then afterwards an auth view is attached
\* (created only if none existed) and the URL has been loaded in it.
C3_Original ==
  [][ \A u \in URLs :
        (last'.ev = "window-open" /\ WindowOpen(u))
        => /\ last'.answer = "deny"
           /\ u.scheme = "https:" => LoadedInAuthSession(u) ]_vars

\* C3 (amended): every window-open request of the primary session is denied;
\* an 'https:' URL is loaded in the auth view (created only if none existed),
\* except that the Filtered revision does so only for URLs naming an ankama
\* account host and hands every other 'https:' URL to shell.openExternal,
\* leaving the auth view as it was.
C3_DeniedAndRouted ==
  [][ \A u \in URLs :
        (last'.ev = "window-open" /\ WindowOpen(u))
        => /\ last'.answer = "deny"
           /\ (u.scheme = "https:" /\ (variant = Filtered => IsAuthUrl(u)))
              => (LoadedInAuthSession(u) /\ ~last'.external)
           /\ (u.scheme = "https:" /\ variant = Filtered /\ ~IsAuthUrl(u))
              => /\ last'.external
                 /\ last'.loadedIn = 0
                 /\ UNCHANGED <<authBrowserView, viewsCreated, attached>> ]_vars

\* the Filtered revision answered an https window-open with no auth view
\* attached by opening the URL externally
C3_Witness ==
  /\ variant = Filtered
  /\ last.ev = "window-open"
  /\ last.answer = "deny"
  /\ last.external
  /\ last.loadedIn = 0
  /\ authBrowserView = 0
  /\ attached = {}

\* View v has fired the navigation-match signal and the console auth-success
\* signal, once each, these are all the signals so far, and every completion
\* sequence has finished.
BothSignalsDone(v) ==
  /\ signals[<<v, "navigate">>] = 1
  /\ signals[<<v, "console">>] = 1
  /\ SignalsFired = 2
  /\ seqs = EmptyBag

\* C4: if both the navigation-match signal and the console auth-success signal
\* fire for the same auth view, the primary session is reloaded exactly once.
C4_ReloadedOnce ==
  \A v \in Views :
    (BothSignalsDone(v) /\ ~closed) => reloads["then"] = 1

\* C5: if both the navigation-match signal and the console auth-success signal
\* fire for the same auth view, that view is detached from the window exactly
\* once: never more than once, and once by the time no completion sequence
\* that reads from it is in flight.
C5_DetachedOnce ==
  \A v \in Views :
    /\ detaches[v] <= 1
    /\ ( /\ signals[<<v, "navigate">>] >= 1
         /\ signals[<<v, "console">>] >= 1
         /\ \A s \in InFlight : s.src # v )
       => detaches[v] = 1

\* both signals of view 1 have run their sequences, both of which read from
\* view 1, and view 1 was detached once
C5_Witness ==
  /\ BothSignalsDone(1)
  /\ viewsCreated = 1
  /\ detaches[1] = 1
  /\ reloads["then"] = 2
  /\ primaryJar # {}

\* C6: no two completion sequences are in flight at the same time for one
\* GameWindow.
C6_SingleFlight == BagCardinality(seqs) <= 1

\* The steps of the sequence that finished in the last step.
CompletedLog == IF completed = <<>> THEN <<>> ELSE completed[1].log

\* The place of a step in the completion sequence.
StepRank(e) ==
  CASE e = "cookies" -> 1
    [] e = "cookiesEnd" -> 2
    [] e = "storage" -> 3
    [] e = "storageEnd" -> 4
    [] e = "detach" -> 5
    [] e = "reload" -> 6

\* The steps in log are in sequence order, and no step starts before the
\* transfer started before it has finished.
StepsInOrder(log) ==
  /\ \A i, j \in 1..Len(log) : i < j => StepRank(log[i]) < StepRank(log[j])
  /\ \A i \in 1..Len(log) :
       /\ (log[i] = "cookies" /\ i < Len(log)) => log[i + 1] = "cookiesEnd"
       /\ (log[i] = "storage" /\ i < Len(log)) => log[i + 1] = "storageEnd"

\* C7: within one completion sequence the steps occur in the order cookie
\* transfer, local-storage transfer, detach, reload, each step starting only
\* after the previous one has finished.
C7_StepsSequential ==
  /\ StepsInOrder(CompletedLog)
  /\ \A s \in InFlight : StepsInOrder(s.log)

\* a sequence has just finished having taken every step
C7_Witness ==
  CompletedLog = <<"cookies", "cookiesEnd", "storage", "storageEnd", "detach", "reload">>

\* C8: an auth view is never detached while a cookie or localStorage copy out
\* of it is still in progress.
C8_NoDetachDuringCopy ==
  \A s \in InFlight :
    /\ s.pc \in {"get", "set"} => s.src \in attached
    /\ s.pc \in {"lsGet", "lsSet"} => s.lsSrc \in attached

\* C9: each completion signal observed on the auth view, the manual close
\* signal included, runs the full completion sequence: with an auth view
\* attached it starts the session-state transfer out of that view.
C9_EverySignalRunsSequence ==
  [][ /\ \A v \in Views, u \in URLs :
           (IsSuccessUrl(u) /\ authBrowserView # 0 /\ last'.ev = "did-navigate"
              /\ AuthDidNavigate(v, u))
           => \E s \in BagToSet(seqs') :
                s.src = authBrowserView /\ CopiesIn(s, seqs') = CopiesIn(s, seqs) + 1
      /\ \A v \in Views, msg \in Messages :
           ( /\ authBrowserView # 0
             /\ CloseRequested \in msg \/ (variant = Detector /\ AuthSuccess \in msg)
             /\ last'.ev = "console-message"
             /\ AuthConsoleMessage(v, msg) )
           => \E s \in BagToSet(seqs') :
                s.src = authBrowserView /\ CopiesIn(s, seqs') = CopiesIn(s, seqs) + 1 ]_vars

\* C10: a will-navigate or window-open request inside the auth view whose URL
\* does not start with 'http' never proceeds (it is prevented or denied), and
\* after it no auth view is attached and the primary session, if the window is
\* still open, has been reloaded.  (will-navigate: in the revisions that
\* register the handler.)
C10_CustomSchemeIntercepted ==
  [][ \A v \in Views, u \in URLs :
        /\ ( /\ variant # Filtered /\ u.scheme \notin {"http:", "https:"}
             /\ last'.ev = "will-navigate" /\ AuthWillNavigate(v, u) )
           => /\ last'.answer = "prevented"
              /\ authBrowserView' = 0
              /\ attached' = {}
              /\ ~closed => reloads'["intercept"] = reloads["intercept"] + 1
        /\ ( /\ u.scheme \notin {"http:", "https:"}
             /\ last'.ev = "auth-window-open" /\ AuthWindowOpen(v, u) )
           => /\ last'.answer = "deny+reload"
              /\ authBrowserView' = 0
              /\ attached' = {}
              /\ ~closed => reloads'["intercept"] = reloads["intercept"] + 1 ]_vars

\* a navigation of the attached auth view to a URL with no 'http' prefix was
\* prevented while a transfer out of that view was in flight
C10_Witness ==
  /\ last = Acted("will-navigate", "prevented")
  /\ ~closed
  /\ reloads["intercept"] = 1
  /\ authBrowserView = 0
  /\ attached = {}
  /\ \E s \in InFlight : s.src # 0 /\ detaches[s.src] = 1

\* C11: when a custom-scheme or non-HTTP navigation or window-open request of
\* the auth view is intercepted while an auth view is attached, the handler
\* starts a cookie / storage transfer out of that view before the view is
\* detached and the primary session reloaded.
C11_TransferBeforeIntercept ==
  [][ \A v \in Views, u \in URLs :
        ( /\ u.scheme \notin {"http:", "https:"}
          /\ authBrowserView # 0
          /\ \/ (variant # Filtered /\ last'.ev = "will-navigate" /\ AuthWillNavigate(v, u))
             \/ (last'.ev = "auth-window-open" /\ AuthWindowOpen(v, u)) )
        => \E s \in BagToSet(seqs') :
             s.src = authBrowserView /\ CopiesIn(s, seqs') = CopiesIn(s, seqs) + 1 ]_vars

\* The _transferCookies calls in flight or finished in the last step.
Transfers == InFlight \cup {completed[k] : k \in 1..Len(completed)}

\* The cookie loop of s has run out.
CookieLoopDone(s) == \E k \in 1..Len(s.log) : s.log[k] = "cookiesEnd"

\* One cookies.set call per record received, in the order received.
OneAttemptPerRecord(s) ==
  /\ Len(s.attempts) <= Len(s.cookies)
  /\ CookieLoopDone(s) => Len(s.attempts) = Len(s.cookies)
  /\ \A k \in 1..Len(s.attempts) :
       /\ s.attempts[k].name = s.cookies[k].name
       /\ s.attempts[k].value = s.cookies[k].value
       /\ s.attempts[k].domain = s.cookies[k].domain
       /\ s.attempts[k].path = s.cookies[k].path

\* For each key among the records of s the primary jar holds one cookie, with
\* the value of the last record of that key.
LatestValuePerKey(s) ==
  \A k \in 1..Len(s.cookies) :
    LET same == {j \in 1..Len(s.cookies) : CookieKey(s.cookies[j]) = CookieKey(s.cookies[k])}
        latest == CHOOSE j \in same : \A i \in same : i <= j
        held == {c \in primaryJar : CookieKey(c) = CookieKey(s.cookies[k])}
    IN /\ Cardinality(held) = 1
       /\ \A c \in held : c.value = s.cookies[latest].value

\* C12: the cookie transfer makes exactly one set attempt per cookie record of
\* the auth jar, in the order received, and when no attempt fails the primary
\* jar holds, for each (name, domain, path) key, the value of the last record
\* of that key.
C12_LatestValueWins ==
  \A s \in Transfers :
    /\ OneAttemptPerRecord(s)
    /\ (CookieLoopDone(s) /\ \A k \in 1..Len(s.results) : s.results[k])
       => LatestValuePerKey(s)

\* three records, the first and the last of one key with different values, all
\* set without failure: the jar holds the last one's value
C12_Witness ==
  \E s \in Transfers :
    /\ CookieLoopDone(s)
    /\ Len(s.cookies) = 3
    /\ s.results = <<TRUE, TRUE, TRUE>>
    /\ CookieKey(s.cookies[1]) = CookieKey(s.cookies[3])
    /\ CookieKey(s.cookies[1]) # CookieKey(s.cookies[2])
    /\ s.cookies[1].value # s.cookies[3].value
    /\ \E c \in primaryJar : c.name = "sid" /\ c.value = s.cookies[3].value

\* C13: if setting one cookie fails, or the localStorage copy fails, the
\* remaining cookies are still attempted and the completion sequence still
\* detaches the auth view and reloads the primary session.
C13_FailureDoesNotAbort ==
  /\ \A s \in Transfers :
       CookieLoopDone(s) =>
         (Len(s.attempts) = Len(s.cookies) /\ Len(s.results) = Len(s.cookies))
  /\ \A k \in 1..Len(completed) :
       LET log == completed[k].log
       IN /\ Len(log) >= 2
          /\ log[Len(log) - 1] = "detach"
          /\ log[Len(log)] = "reload"
          /\ authBrowserView = 0
          /\ attached = {}
          /\ detaches[completed[k].src] = 1
          /\ reloads["then"] = 1

\* the first of three cookies failed, the other two were set, the localStorage
\* write failed, and the sequence finished with detach and reload
C13_Witness ==
  /\ completed # <<>>
  /\ completed[1].results = <<FALSE, TRUE, TRUE>>
  /\ Cardinality(primaryJar) = 2
  /\ completed[1].lsData # {}
  /\ primaryStorage = {}
  /\ authBrowserView = 0
  /\ reloads["then"] = 1

\* C14: every cookie written to the primary jar by the transfer carries the
\* same name, value, domain, path, secure, httpOnly, expirationDate and
\* sameSite as the auth view's cookie it was copied from.
C14_AttributesPreserved ==
  \A c \in primaryJar :
    \E s \in Transfers : \E k \in 1..Len(s.cookies) : s.cookies[k] = c

\* C15: closing a GameWindow detaches any attached auth view and unregisters
\* all of the window's shortcuts before the 'close' notification is emitted;
\* after close the window holds no auth view and later hotkey-store changes
\* register no shortcut for it.
C15_CleanBeforeCloseNotice ==
  /\ \A k \in 1..Len(closeNotices) :
       /\ closeNotices[k].views = {}
       /\ closeNotices[k].shortcuts = {}
       /\ ~closeNotices[k].observing
  /\ closed => /\ Len(closeNotices) >= 1
               /\ authBrowserView = 0
               /\ attached = {}
               /\ shortcuts = {}

\* the window was closed with its auth view attached, and a hotkey-store
\* change after the close registered nothing
C15_Witness ==
  /\ closed
  /\ detaches[1] = 1
  /\ Len(closeNotices) = 1
  /\ last = Acted("hotkey-store", "ignored")
  /\ shortcuts = {}

\* gWindows without the window of identity id
WithoutWindow(id) == SelectSeq(gWindows, LAMBDA w : w.id # id)

\* C16: close is idempotent: however many 'close' events the BrowserWindow
\* delivers, a GameWindow emits exactly one 'close' notification, and the
\* orchestrator removes exactly that window from its list, once.
C16_CloseIdempotent ==
  [][ /\ \A id \in 1..MaxWindows : closeEmits[id] <= 1 /\ closeEmits'[id] <= 1
      /\ \A id \in 1..MaxWindows :
           (closeEvents' = closeEvents + 1 /\ WinCloseEvent(id))
           => IF closeEmits[id] = 0
              THEN /\ closeEmits' = [closeEmits EXCEPT ![id] = 1]
                   /\ \E k \in 1..Len(gWindows) : gWindows[k].id = id
                   /\ gWindows' = WithoutWindow(id)
                   /\ Len(gWindows') = Len(gWindows) - 1
              ELSE /\ closeEmits' = closeEmits
                   /\ gWindows' = gWindows ]_vars

\* two windows were created and three 'close' events delivered, all to window
\* 1: it emitted one 'close' and window 2 is still in the list
C16_Witness ==
  /\ nextWindowId = 3
  /\ closeEvents = 3
  /\ closeEmits[1] = 1
  /\ closeEmits[2] = 0
  /\ Len(gWindows) = 1
  /\ gWindows[1].id = 2


\* C17: an init() call on a WSAWindow that is initializing or ready starts
\* nothing, so that init() calls made while a sequence is running leave
\* exactly one initialization sequence running on the controller: no
\* controller ever has two init() sequences in flight.
C17_OneSequencePerController ==
  \A c \in Controllers : Cardinality(RunningOn(c)) <= 1

\* C18: the orchestrator holds at most one WSAWindow and at most one
\* WSAWindow initialization sequence is running in the process, whatever
\* the interleaving of createWSAWindow and closeWSAWindow requests.
C18_OneControllerOneInit ==
  Cardinality({i \in InitIds : Running(i)}) <= 1

\* C19: createWSAWindow called while the controller the orchestrator holds is
\* ready returns that controller at once (the IPC handler answers true):
\* no requirement check is started, no controller is constructed, no init()
\* sequence starts and no embedding window is created.
C19_ReadyControllerReused ==
  [][ ( /\ wsaWindow # 0
        /\ wsa[wsaWindow].isReady
        /\ wsaLast'.ev = "createWSAWindow"
        /\ CreateWSAWindow )
      => /\ wsaLast' = Returned(wsaWindow, FALSE)
         /\ wsaLast'.ipc
         /\ UNCHANGED <<wsaWindow, wsa, wsaMade, wsaListeners, inits, bWindows, creates,
                        wsaEmits, winBounds, ticks>>
    ]_vars

C19_Witness ==
  /\ wsaWindow # 0
  /\ wsa[wsaWindow].isReady
  /\ wsaLast = Returned(wsaWindow, FALSE)
  /\ creates[1].pc = "returned"
  /\ creates[2].pc = "unused"

\* The controllers whose init() lost the race against the 30-second timer
\* of the createWSAWindow call that constructed them.
Abandoned == {inits[creates[k].init].c : k \in {x \in CreateIds : creates[x].timedOut}}

\* C20: once the 30-second timeout of createWSAWindow has won the race
\* against init(), the controller it abandoned never again owns an
\* embedding window or a running polling timer and never becomes ready,
\* whatever the continuation of its init() does afterwards.
C20_TimeoutLeavesNothing ==
  \A c \in Abandoned :
    /\ wsa[c].window = 0
    /\ ~wsa[c].checkInterval
    /\ ~wsa[c].screenshotInterval
    /\ ~wsa[c].isReady

\* Controller c holds nothing: it is neither ready nor initializing and has
\* no embedding window, no native handle and no polling timer.
HoldsNothing(w, c) ==
  /\ ~w[c].isReady
  /\ ~w[c].initializationInProgress
  /\ w[c].window = 0
  /\ ~w[c].wsaHandle
  /\ ~w[c].checkInterval
  /\ ~w[c].screenshotInterval

\* C21: when a step of init() fails, init() returns false and does not
\* throw, it has emitted one 'error' notification, and cleanup has run: the
\* controller is neither ready nor initializing and holds no embedding
\* window, native handle or polling timer, with or without an 'error'
\* listener registered.
C21_FailedInitReturnsFalse ==
  [][ \A i \in InitIds :
        (inits[i].pc \notin Outcomes /\ inits'[i].pc \in {"false", "rejected"})
        => /\ inits'[i].pc = "false"
           /\ wsaEmits'[inits'[i].c]["error"] = wsaEmits[inits'[i].c]["error"] + 1
           /\ HoldsNothing(wsa', inits'[i].c) ]_vars

\* The init() sequences of controller c that made it ready.
ReadyPeriods(c) == {i \in InitIds : inits[i].c = c /\ inits[i].pc = "true"}

\* C22: when the native window no longer resolves to the WSA identity the
\* controller tears down and emits 'closed' once in total: per period in
\* which a controller was ready it emits at most one 'closed', counting the
\* liveness callbacks, overlapping ones, and the embedding window's own
\* 'closed' event that the teardown causes.
C22_ClosedEmittedOnce ==
  \A c \in Controllers : wsaEmits[c]["closed"] <= Cardinality(ReadyPeriods(c))

\* C23: after cleanup() returns, from any controller state, both polling
\* timers are stopped and their handles empty, the native-window handle is
\* empty, the embedding-window reference is empty and the controller is not
\* ready.
C23_CleanupEmptiesEverything ==
  [][ \A c \in Controllers :
        (wsaLast'.ev = "cleanup" /\ WSACleanup(c))
        => /\ ~wsa'[c].checkInterval
           /\ ~wsa'[c].screenshotInterval
           /\ ~wsa'[c].wsaHandle
           /\ wsa'[c].window = 0
           /\ ~wsa'[c].isReady ]_vars

\* The checks that did not pass, in the order OS version, subsystem
\* installed, bridge tool available.
FailingChecks(outcomes) == SelectSeq(<<1, 2, 3>>, LAMBDA k : outcomes[k] # "true")

\* The answer r names one issue per check that did not pass, in order, and
\* meetsRequirements says that there is no issue, that is, that every check
\* passed.
OneIssuePerFailingCheck(r, outcomes) ==
  /\ Len(r.issues) = Len(FailingChecks(outcomes))
  /\ \A j \in 1..Len(r.issues) :
       LET name == CheckNames[FailingChecks(outcomes)[j]]
       IN r.issues[j] \in {RequiredIssue[name], ErrorIssue[name]}
  /\ r.meetsRequirements <=> r.issues = <<>>
  /\ r.meetsRequirements <=> \A k \in 1..3 : outcomes[k] = "true"

\* A checkWSARequirements() call has returned r.
Answered(r) ==
  /\ fnArgs.fn = "checkWSARequirements"
  /\ fnResult = <<r>>
  /\ r.settled = "resolved"

\* C24 as stated: whatever the platform, checkWSARequirements() returns one
\* issue string per failing check, in the order OS version, subsystem
\* installed, bridge tool available, and meetsRequirements is true exactly
\* when the issue list is empty, exactly when all checks pass.
C24_Original ==
  \A r \in {fnResult[j] : j \in 1..Len(fnResult)} :
    Answered(r) => OneIssuePerFailingCheck(r, fnArgs.outcomes)

\* C24: when checkWSARequirements() executes its checks (on win32, and in
\* the earlier revision on every platform) it returns one issue string per
\* failing check, in the order OS version, subsystem installed, bridge tool
\* available, and meetsRequirements is true exactly when the issue list is
\* empty, exactly when all checks pass; off win32 the later revision
\* returns the one platform issue and meetsRequirements false.
C24_IssuePerFailingCheck ==
  \A r \in {fnResult[j] : j \in 1..Len(fnResult)} :
    Answered(r)
    => IF fnArgs.revision = Later /\ platform # "win32"
       THEN r.issues = <<PlatformIssue>> /\ ~r.meetsRequirements
       ELSE OneIssuePerFailingCheck(r, fnArgs.outcomes)

C24_Witness ==
  /\ platform = "win32"
  /\ fnArgs.fn = "checkWSARequirements"
  /\ fnArgs.revision = Later
  /\ fnArgs.outcomes = <<"false", "true", "throws">>
  /\ Len(fnResult) = 1
  /\ fnResult[1].issues = <<RequiredIssue["isWindows11"], ErrorIssue["isADBAvailable"]>>

\* C25 as stated: every call of checkWSARequirements() executes all three
\* checks, whatever the outcome of the earlier ones and whatever the
\* platform.
C25_Original ==
  \A r \in {fnResult[j] : j \in 1..Len(fnResult)} :
    (Answered(r) /\ fnArgs.revision = Later) => r.ran = CheckNames

\* C25: on win32 every call of checkWSARequirements() executes all three
\* checks, whatever the outcome of the earlier ones; on another platform
\* the call returns the platform issue and executes none of them.
C25_AllChecksRunOnWindows ==
  \A r \in {fnResult[j] : j \in 1..Len(fnResult)} :
    (Answered(r) /\ fnArgs.revision = Later)
    => IF platform = "win32"
       THEN r.ran = CheckNames
       ELSE r.ran = <<>> /\ r.issues = <<PlatformIssue>>

C25_Witness ==
  /\ platform = "win32"
  /\ fnArgs.fn = "checkWSARequirements"
  /\ fnArgs.revision = Later
  /\ fnArgs.outcomes[1] = "false"
  /\ fnArgs.outcomes[2] = "throws"
  /\ Len(fnResult) = 1
  /\ fnResult[1].ran = CheckNames

\* The tokens are the JSON text of an object { meetsRequirements, issues }
\* with k issue strings.
IsRequirementsJSON(tokens, k) ==
  /\ Len(tokens) = 10 + (IF k = 0 THEN 0 ELSE 2 * k - 1)
  /\ SubSeq(tokens, 1, 3) = <<Punct("{"), StringLiteral("meetsRequirements"), Punct(":")>>
  /\ tokens[4] \in {Punct("true"), Punct("false")}
  /\ SubSeq(tokens, 5, 8) = <<Punct(","), StringLiteral("issues"), Punct(":"), Punct("[")>>
  /\ \A j \in 1..k : tokens[7 + 2 * j].t = "string"
  /\ \A j \in 1..(k - 1) : tokens[8 + 2 * j] = Punct(",")
  /\ SubSeq(tokens, Len(tokens) - 1, Len(tokens)) = <<Punct("]"), Punct("}")>>

\* JSON.parse of such a text.
ParsedRequirements(tokens, k) ==
  [meetsRequirements |-> tokens[4] = Punct("true"),
   issues |-> [j \in 1..k |-> tokens[7 + 2 * j].v]]

BoundsSet == wsaLast.ev = "check tick resumed" /\ wsaLast.answer = "setBounds"

\* C27: after a geometry poll tick in which the native window rectangle was
\* read and the embedding window still exists, the embedding window's
\* position and size equal that rectangle, the rectangle being the object
\* { X, Y, Width, Height } the native query returns; and setBounds is never
\* called on a destroyed or released embedding window.
C27_BoundsFollowNativeWindow ==
  BoundsSet
  => /\ wsaLast.win # 0
     /\ ~IsDestroyed(bWindows, wsaLast.win)
     /\ winBounds[wsaLast.win] = [x |-> wsaLast.rect.X, y |-> wsaLast.rect.Y,
                                  width |-> wsaLast.rect.Width,
                                  height |-> wsaLast.rect.Height]

\* C28: the transient waits of init() are bounded: the native-window lookup
\* makes at most 10 attempts, the poll of startWSA makes at most 10 running
\* checks, and an init() whose lookup exhausted its attempts has failed by
\* returning false.
C28_WaitsBoundedAndFail ==
  /\ \A i \in InitIds :
       /\ inits[i].retries <= maxRetries
       /\ inits[i].pc = "findWindowByTitle" => inits[i].retries + 1 <= maxRetries
       /\ inits[i].retries = maxRetries => inits[i].pc = "false"
  /\ \A r \in {fnResult[j] : j \in 1..Len(fnResult)} :
       fnArgs.fn = "startWSA"
       => /\ r.checks <= maxAttempts
          /\ (\A j \in 1..MaxRunningChecks : ~fnArgs.running[j]) => ~r.result

\* C29: a screenshot tick whose capture fails (one of its commands throws,
\* so that the path is empty) emits no notification and leaves the
\* screenshot timer as it is; a tick whose capture succeeds emits exactly
\* one 'screenshot' notification, which carries the artifact path, and no
\* other notification.
C29_ScreenshotTickSkipsFailure ==
  [][ \A t \in TickIds, screencap \in BOOLEAN, pull \in BOOLEAN, rm \in BOOLEAN :
        (wsaLast'.ev = "screenshot taken" /\ ScreenshotTaken(t, screencap, pull, rm))
        => /\ wsa' = wsa
           /\ IF screencap /\ pull /\ rm
              THEN /\ wsaEmits' = Emitted(wsaEmits, ticks[t].c, "screenshot")
                   /\ wsaLast'.emitted = <<ScreenshotPath>>
              ELSE /\ wsaEmits' = wsaEmits
                   /\ wsaLast'.emitted = <<>> ]_vars

C29_Witness ==
  /\ wsaLast.ev = "screenshot taken"
  /\ wsaLast.path = ""
  /\ wsaEmits[1]["screenshot"] = 1
  /\ wsa[1].screenshotInterval
  /\ ticks[2].pc = "done"

\* C30: a timeout-guarded probe fails closed.  safeExecPowerShell yields
\* the empty string when its command times out or errors, and every
\* availability check built on it (the OS version, each of the three
\* subsystem-installed probes, the service and the process probe of
\* subsystem-running) treats that as the probe not being satisfied: a check
\* all of whose probes ended so answers false.
C30_ProbesFailClosed ==
  \A r \in {fnResult[j] : j \in 1..Len(fnResult)} :
    fnArgs.fn \in Checks
    => /\ \A j \in GuardedProbes(fnArgs.fn) :
            fnArgs.probes[j].ends # "exit 0"
            => /\ SafeExecPowerShell(fnArgs.probes[j]) = <<>>
               /\ j \notin r.satisfied
       /\ (\A j \in 1..3 : fnArgs.probes[j].ends # "exit 0") => ~r.result
       /\ r.result <=> r.satisfied # {}

C30_Witness ==
  /\ platform = "win32"
  /\ fnArgs.fn = "isWSAInstalled"
  /\ fnArgs.probes[1] = TimedOut
  /\ fnArgs.probes[2] = Exited("exit 1", <<"ERROR:", " ", "denied", "\n">>)
  /\ fnArgs.probes[3] = Exited("exit 0", <<"True", "\n">>)
  /\ fnResult = <<Available(3)>>

\* C31: restartDofusTouch() requests the stop of the companion app, then
\* launches it again, and resolves to the success value of the launch; a
\* failed stop does not prevent the relaunch and the call never rejects.
C31_RestartReturnsLaunchResult ==
  \A r \in {fnResult[j] : j \in 1..Len(fnResult)} :
    fnArgs.fn = "restartDofusTouch"
    => /\ r.settled = "resolved"
       /\ r.calls = <<"stopDofusTouch", "launchDofusTouch">>
       /\ r.value <=> fnArgs.launch = "exit 0"

\* C32: a completion or custom-scheme signal that arrives when no auth view
\* is attached does not reload the primary session: the reloads issued by the
\* auth logic never outnumber the detachments of auth views.
C32_ReloadsFollowDetaches ==
  reloads["then"] + reloads["intercept"] <= SumOver(detaches, Views)

\* C33: a completion signal delivered by an auth view that is no longer the
\* one the window holds neither detaches the later auth view nor starts a
\* transfer out of it: a handler acts only on the view it was registered on.
C33_HandlersActOnOwnView ==
  [][ \A v \in Views, t \in Triggers :
        ( /\ signals'[<<v, t>>] = signals[<<v, t>>] + 1
          /\ authBrowserView # 0
          /\ authBrowserView # v )
        => /\ authBrowserView' = authBrowserView
           /\ detaches'[authBrowserView] = detaches[authBrowserView]
           /\ \A s \in BagToSet(seqs') :
                s.src = authBrowserView => CopiesIn(s, seqs') <= CopiesIn(s, seqs) ]_vars

\* C34: after the GameWindow has emitted 'close', no step of a completion
\* sequence still in flight touches the primary session: no cookie is set in
\* its jar, nothing is written to its localStorage and no reload is issued.
C34_NothingAfterClose ==
  [][ closed => /\ primaryJar' = primaryJar
                /\ primaryStorage' = primaryStorage
                /\ reloads' = reloads ]_vars

\* C35: createWSAWindow returns a controller (the IPC handler answers true)
\* only when that controller is ready: a call made while the initialization
\* started by another call is still running, or whose initialization fails,
\* does not report success.
C35_SuccessMeansReady ==
  (wsaLast.ev = "createWSAWindow" /\ wsaLast.returned /\ wsaLast.ipc)
  => /\ wsaLast.result # 0
     /\ wsa[wsaLast.result].isReady

\* C36: a 'closed' notification of a controller the orchestrator has
\* discarded (cleanup() has run on it and the orchestrator holds another
\* controller, created afterwards) never clears the orchestrator's reference
\* to the controller it holds now.
C36_StaleClosedKeepsReference ==
  [][ \A c \in Controllers :
        ( /\ wsaWindow # 0
          /\ wsaWindow # c
          /\ HoldsNothing(wsa, c)
          /\ wsaEmits'[c]["closed"] = wsaEmits[c]["closed"] + 1 )
        => wsaWindow' = wsaWindow ]_vars

\* C37: once cleanup() has run on a WSAWindow, and as long as init() is not
\* called on it again, the controller emits no 'screenshot' notification,
\* not even from a screenshot tick whose capture was pending when cleanup()
\* ran.
C37_NoScreenshotAfterCleanup ==
  [][ \A c \in Controllers :
        (HoldsNothing(wsa, c) /\ RunningOn(c) = {})
        => wsaEmits'[c]["screenshot"] = wsaEmits[c]["screenshot"] ]_vars

\* The GameWindows constructed so far that have not emitted 'close'.
OpenWindowIds == {id \in 1..(nextWindowId - 1) : closeEmits[id] = 0}

\* C38: after any sequence of createGameWindow calls and window closes the
\* orchestrator's window list holds exactly the game windows created and not
\* yet closed, each once; and on a platform other than macOS app.quit() is
\* requested exactly by a close that leaves the list empty, on macOS never.
C38_WindowListExact ==
  /\ [](/\ {gWindows[i].id : i \in 1..Len(gWindows)} = OpenWindowIds
        /\ Len(gWindows) = Cardinality(OpenWindowIds))
  /\ [][ /\ quitRequests' \in {quitRequests, quitRequests + 1}
         /\ quitRequests' = quitRequests + 1
            <=> /\ platform # "darwin"
                /\ closeEmits' # closeEmits
                /\ gWindows' = <<>> ]_vars

C38_Witness ==
  /\ platform = "linux"
  /\ nextWindowId = 4
  /\ closeEmits = <<1, 1, 1>>
  /\ gWindows = <<>>
  /\ quitRequests = 1

\* C39: after any sequence of focus, blur and setAudioMute operations on a
\* GameWindow, the window's audio is muted whenever the global audioMuted
\* option is on; and after a 'focus' event the window is muted exactly when
\* the global option or the window's own mute flag is set.
C39_GlobalMuteWins ==
  /\ audioMutedOption => \A id \in LiveWindows : audioMuted[id]
  /\ audioLast.op = "focus" =>
       (audioMuted[audioLast.id] <=> (audioMutedOption \/ isMuted[audioLast.id]))

\* C40: an 'open-url' activation that arrives before the Application
\* singleton is initialised is ignored and raises no error; one that arrives
\* afterwards reloads every open game window exactly once, and no other.
C40_OpenUrlIgnoredOrReloads ==
  [][ openUrls' = openUrls + 1 =>
        /\ uncaught' = uncaught
        /\ winReloads' = IF instance
                           THEN [id \in 1..MaxWindows |->
                                   IF id \in LiveWindows THEN winReloads[id] + 1
                                                         ELSE winReloads[id]]
                           ELSE winReloads ]_vars
====
